---- MODULE Spec2Model ----
(***************************************************************************)
(* State-machine model of the video generation core of tool-video-veo3:    *)
(*   - BaseGenerator.retry_on_error            (core/generators/base_generator.py) *)
(*   - TextToVideoGenerator.generate_video     (core/generators/text_to_video.py)  *)
(*   - SceneManager.generate_single_scene / generate_scene_sequence         *)
(*                                             (core/managers/scene_manager.py)    *)
(*   - SceneManagerTab and ProjectData, the scene editor                   *)
(*                                             (ui/tabs/scene_manager_tab.py)      *)
(*   - VideoMerger and the post-processing operations of SceneManager      *)
(*                                             (utils/video_merger.py)             *)
(* The generation backend (submit / poll / download), the record store and *)
(* the external encoder are the environment: their outcomes are chosen     *)
(* nondeterministically.  Time is counted in seconds.  Python's None is    *)
(* the string "None".                                                       *)
(***************************************************************************)
EXTENDS Integers, Sequences, FiniteSets, TLC

\* ---------------------------------------------------------------- bounds
\* largest max_retries / retry_delay / max_poll_attempts / timeout tried
MaxRetries == 3
MaxDelay == 2
MaxPollAttempts == 3
MaxTimeout == 5
\* longest time one status poll may take
MaxLatency == 1
\* longest scene list given to generate_scene_sequence
MaxScenes == 2
\* max_retries and max_poll_attempts of the generators a SceneManager owns
SceneRetries == 2
ScenePollAttempts == 2
\* longest scene prompt / global template tried, in characters
MaxPromptLen == 3
MaxTemplateLen == 2
\* most calls of generate_scene_sequence on one scene list
MaxRuns == 2
\* most scenes a project holds
MaxProjectScenes == 3
\* most scenes of a project that is merged, most merge requests followed
MaxMergeScenes == 2
MaxMergeRequests == 1
\* post-processing: clips per call, seconds per clip and per crossfade,
\* digits per number of a frame rate text
MaxClips == 3
MaxDuration == 2
MaxTransition == 1
MaxDigits == 2

\* ------------------------------------------------------- program constants
default_max_retries == 3
default_retry_delay == 2
poll_interval == 2

None == "None"

VARIABLES
    entry,              \* the public operation called: "job" (generate_video),
                        \* "scene" (generate_single_scene), "sequence"
    scenes,             \* the scene_data dicts passed in, in list order
    global_template,    \* argument of generate_scene_sequence
    spc,                \* position inside the SceneManager operation
    cur,                \* loop variable i of generate_scene_sequence
    previous_video_path,\* local of generate_scene_sequence / argument of
                        \* generate_single_scene
    results,            \* local of generate_scene_sequence
    dispatch,           \* how generate_single_scene dispatched the scene
    sceneResult,        \* what generate_single_scene returned
    events,             \* history: the progress events generate_scene_sequence
                        \* gave to its progress_callback, in order
    last_completed_video, \* history: video of the latest job that ran to
                        \* completion (its download succeeded)
    cancel_requested,   \* history: cancel_generation was called and returned
    tpc,                \* position of the template application
    original_prompt,    \* scene_data['prompt'] as given by the caller
    template_text,      \* the global_template argument, as text
    template_result,    \* what a direct call of apply_global_template returned
    prompt_text,        \* scene_data['prompt'] held by generate_scene_sequence
    sent_prompt,        \* the prompt handed to the generator
    sent_prompts,       \* history: the prompts handed to the generator by
                        \* the successive calls on the same scene list
    project_scenes,     \* ProjectData.scenes of the current project
    current_scene_index,\* SceneManagerTab.current_scene_index
    use_previous_frame_check,   \* checkbox state (checked)
    extend_from_previous_check, \* checkbox state (checked)
    chain_checks_enabled,       \* whether the two checkboxes accept clicks
    merge_videos_requested,     \* history: the payloads of the emitted
                        \* merge_videos_requested signals, in order
    merger,             \* per merge operation: the class whose merge_videos runs
    mpc,                \* per merge operation: its position
    fs,                 \* the file system: what each list file holds
    encoder_read,       \* per merge operation: the list its encoder run read
    exit_code,          \* per merge operation: the encoder's exit code
    output_exists,      \* per merge operation: whether the output file exists
    merr,               \* per merge operation: text of the exception in flight
    mresult,            \* per merge operation: how merge_videos ended
    pclass,             \* class whose post-processing operation is called
    pop,                \* the post-processing operation called
    ppc,                \* position inside the post-processing operation
    ffmpeg_installed,   \* whether ffmpeg and ffprobe can be run
    add_transitions,    \* argument of merge_videos
    video_infos,        \* per input clip: the metadata ffprobe reports
    transition_duration,\* argument of merge_videos / _build_xfade_filter
    r_frame_rate,       \* the r_frame_rate text in ffprobe's output
    probe_ok,           \* whether ffprobe succeeds on every input clip
    invocation,         \* index of the subprocess invocation in progress
    process,            \* whether the subprocess in progress ever exits
    returncode,         \* exit code of the last subprocess that exited
    fps,                \* the frame rate get_video_info computed
    compatible,         \* what validate_videos_compatible returned
    filter_complex,     \* what _build_xfade_filter returned
    presult,            \* how the post-processing operation ended
    jpc,                \* position inside generate_video
    max_retries,        \* BaseGenerator.max_retries
    retry_delay,        \* BaseGenerator.retry_delay
    max_poll_attempts,  \* TextToVideoGenerator.max_poll_attempts
    timeout,            \* BaseGenerator.timeout
    valid,              \* whether (prompt, model, config) pass _validate_inputs
    db,                 \* record store: "none" (no db_manager), "ok", "fails"
    generation_id,      \* local of generate_video: "unbound", None or a record id
    retry_attempt,      \* loop variable `attempt` of retry_on_error
    calls,              \* history: calls of the retried operation so far
    sleeps,             \* history: delays slept by retry_on_error, in order
    last_exception,     \* local of retry_on_error
    operation_id,       \* local of generate_video
    poll_attempt,       \* loop variable `attempt` of check_operation_status
    polls,              \* history: status polls issued so far
    elapsed,            \* time.time() - start_time inside check_operation_status
    consec,             \* history: length of the current run of raising polls
    transients,         \* history: raising polls so far
    exc,                \* exception travelling to generate_video's handlers
    jobResult,          \* what generate_video returned (or raised)
    statuses            \* history: the status values this job handed to the
                        \* record store, in order

cfgVars == <<max_retries, retry_delay, max_poll_attempts, timeout, valid, db>>
retryVars == <<retry_attempt, calls, sleeps, last_exception>>
pollVars == <<poll_attempt, polls, elapsed, consec, transients>>

jobVars == <<jpc, cfgVars, generation_id, retryVars, operation_id, pollVars, exc,
             jobResult, statuses>>

seqVars == <<scenes, global_template, spc, cur, previous_video_path, results,
             dispatch, sceneResult, events>>

\* everything outside the running generate_video call
\* apply_global_template called on its own or by generate_scene_sequence
tplVars == <<tpc, original_prompt, template_text, template_result, prompt_text,
             sent_prompt, sent_prompts>>

\* the scene editor of SceneManagerTab and its ProjectData
edVars == <<project_scenes, current_scene_index, use_previous_frame_check,
            extend_from_previous_check, chain_checks_enabled,
            merge_videos_requested>>

\* merge operations (VideoMerger.merge_videos, SceneManager.merge_videos)
mergeVars == <<merger, mpc, fs, encoder_read, exit_code, output_exists, merr,
               mresult>>

\* the operations that run outside a generation job
\* post-processing operations of VideoMerger and SceneManager
postVars == <<pclass, pop, ppc, ffmpeg_installed, add_transitions, video_infos,
              transition_duration, r_frame_rate, probe_ok, invocation, process,
              returncode, fps, compatible, filter_complex, presult>>

toolVars == <<tplVars, edVars, mergeVars, postVars>>

\* a generation job and the SceneManager operation around it
coreVars == <<entry, jobVars, seqVars, last_completed_video, cancel_requested>>

outerVars == <<entry, seqVars, last_completed_video, cancel_requested, toolVars>>

vars == <<entry, jobVars, seqVars, last_completed_video, cancel_requested, toolVars>>

\* ------------------------------------------------------------ exceptions
\* An exception is its class and what its message says.  `at` is the call
\* of the retried operation that raised it (0 when not raised by a call).
Exc(cls, msg, at) == [cls |-> cls, msg |-> msg, at |-> at]

\* messages a failing submit call may carry
SubmitFailures == {"quota exceeded", "rate limit", "network error"}

\* what makes a download fail: a non-200 response, a write failure
DownloadFailures == {"Download failed with status 404", "Download failed: disk full"}

\* a result dict of generate_video / generate_single_scene
Result(status, video_path, error_type, error) ==
    [status |-> status, video_path |-> video_path, error_type |-> error_type,
     error |-> error]

\* no exception raised yet / no result returned yet
NoExc == Exc(None, None, 0)
NoResult == Result(None, None, None, None)

\* scene_manager.py:250-251  a result with the scene's index added
Tagged(r, idx) ==
    [status |-> r.status, video_path |-> r.video_path, error_type |-> r.error_type,
     error |-> r.error, scene_index |-> idx]

\* ------------------------------------------------------- generate_video
JobReset ==
    /\ generation_id = "unbound"
    /\ retry_attempt = 0
    /\ calls = 0
    /\ sleeps = <<>>
    /\ last_exception = NoExc
    /\ operation_id = None
    /\ poll_attempt = 0
    /\ polls = 0
    /\ elapsed = 0
    /\ consec = 0
    /\ transients = 0
    /\ exc = NoExc
    /\ jobResult = NoResult
    /\ statuses = <<>>

\* no SceneManager operation is running
NoDispatch == [kind |-> None, source_image |-> None, last_frame |-> None]

SceneIdle ==
    /\ scenes = <<>>
    /\ global_template = ""
    /\ spc = "idle"
    /\ cur = 0
    /\ previous_video_path = None
    /\ results = <<>>
    /\ dispatch = NoDispatch
    /\ sceneResult = Tagged(NoResult, 0)
    /\ events = <<>>
    /\ last_completed_video = None
    /\ cancel_requested = FALSE

\* the merge operations that may be in progress at the same time
Ops == {1, 2}

\* the list files: the fixed path SceneManager uses and the names
\* tempfile.NamedTemporaryFile gives out
FileNames == {"concat_list.txt", "tmp1.txt", "tmp2.txt"}

NoMergeResult == [status |-> None, error |-> None]

\* no merge was started, no list file exists
MergeIdle ==
    /\ merger = [op \in Ops |-> None]
    /\ mpc = [op \in Ops |-> "idle"]
    /\ fs = [f \in FileNames |-> "absent"]
    /\ encoder_read = [op \in Ops |-> "unread"]
    /\ exit_code = [op \in Ops |-> -1]
    /\ output_exists = [op \in Ops |-> FALSE]
    /\ merr = [op \in Ops |-> None]
    /\ mresult = [op \in Ops |-> NoMergeResult]

\* a frame rate as the fraction num/den
Rate(num, den) == [num |-> num, den |-> den]
NoRate == Rate(0, 1)

\* the r_frame_rate key is absent from ffprobe's output
Missing == <<"missing">>

NoPostResult == [status |-> None, error |-> None]

\* no post-processing operation was called
PostIdle ==
    /\ pclass = None
    /\ pop = None
    /\ ppc = "idle"
    /\ ffmpeg_installed = TRUE
    /\ add_transitions = FALSE
    /\ video_infos = <<>>
    /\ transition_duration = 0
    /\ r_frame_rate = Missing
    /\ probe_ok = TRUE
    /\ invocation = 0
    /\ process = None
    /\ returncode = -1
    /\ fps = NoRate
    /\ compatible = FALSE
    /\ filter_complex = <<>>
    /\ presult = NoPostResult

\* no standalone operation is running
ToolIdle ==
    /\ tpc = "idle"
    /\ original_prompt = <<>>
    /\ template_text = <<>>
    /\ template_result = <<>>
    /\ prompt_text = <<>>
    /\ sent_prompt = <<>>
    /\ sent_prompts = <<>>
    /\ project_scenes = <<>>
    /\ current_scene_index = -1
    /\ use_previous_frame_check = FALSE
    /\ extend_from_previous_check = FALSE
    /\ chain_checks_enabled = TRUE
    /\ merge_videos_requested = <<>>
    /\ MergeIdle
    /\ PostIdle

Init ==
    /\ entry = "job"
    /\ SceneIdle
    /\ ToolIdle
    /\ jpc = "validate"
    /\ max_retries \in 1..MaxRetries
    /\ retry_delay \in 1..MaxDelay
    /\ max_poll_attempts \in 1..MaxPollAttempts
    /\ timeout \in 1..MaxTimeout
    /\ valid \in BOOLEAN
    /\ db \in {"none", "ok", "fails"}
    /\ JobReset

\* generate_video line 93: _validate_inputs raises ValueError on bad input
Validate ==
    /\ jpc = "validate"
    /\ IF valid
         THEN /\ jpc' = "record"
              /\ exc' = exc
         ELSE /\ jpc' = "handler"
              /\ exc' = Exc("ValueError", "invalid input", 0)
    /\ UNCHANGED <<outerVars, statuses, cfgVars, generation_id, retryVars, operation_id, pollVars,
                   jobResult>>

\* a create_generation_record that lets the store's exception through: the
\* assignment of generation_id does not happen
create_generation_record_raising(store) ==
    IF store = "ok" THEN "rec" ELSE IF store = "fails" THEN "unbound" ELSE None

\* BaseGenerator.create_generation_record: None without a db_manager or when
\* the store raises, the new id otherwise; never raises
create_generation_record(store) == IF store = "ok" THEN "rec" ELSE None

\* base_generator.py:179-191  the record is saved with status PENDING
created_status(hist, store) == IF store = "ok" THEN Append(hist, "pending") ELSE hist

\* base_generator.py:208-219  update_generation_record: skipped without a
\* db_manager or a generation id; otherwise the update (which the code only
\* logs, the store call being a TODO) is made and cannot fail
update_generation_record(hist, store, id, status) ==
    IF store = "none" \/ id = None THEN hist ELSE Append(hist, status)

\* text_to_video.py:95-102  the record is created; then the first two
\* progress updates (0% and 10%) are handed to the progress callback
CreateRecord ==
    /\ jpc = "record"
    /\ generation_id' = create_generation_record(db)
    /\ statuses' = created_status(statuses, db)
    /\ jpc' = "submit"
    /\ UNCHANGED <<outerVars, cfgVars, retryVars, operation_id, pollVars, exc, jobResult>>

\* ------------------------------------------- BaseGenerator.retry_on_error
\* a backoff that multiplies by the attempt index instead of attempt + 1
backoff_delay_index(d, attempt) == d * attempt

\* base_generator.py:132  delay = self.retry_delay * (attempt + 1)
backoff_delay(d, attempt) == d * (attempt + 1)

\* base_generator.py:131  a sleep follows a failed call unless it was the last
sleeps_after(attempt, n) == attempt < n - 1

\* One iteration of the loop whose call returns: retry_on_error returns the
\* response at once.  _send_generation_request then reads operation_id; a
\* response without one raises GenerationError inside its own try block.
RetryCallReturns ==
    /\ jpc = "submit"
    /\ retry_attempt < max_retries
    /\ calls' = calls + 1
    /\ \E has_id \in BOOLEAN :
         IF has_id
           THEN /\ operation_id' = "op"
                /\ jpc' = "submitted"
                /\ exc' = exc
           ELSE /\ operation_id' = operation_id
                /\ jpc' = "classify"
                /\ exc' = Exc("GenerationError", "No operation_id in response", 0)
    /\ UNCHANGED <<outerVars, statuses, cfgVars, generation_id, retry_attempt, sleeps,
                   last_exception, pollVars, jobResult>>

\* One iteration whose call raises: remember the exception, then sleep
\* before the next iteration unless this was the last one.
RetryCallRaises ==
    /\ jpc = "submit"
    /\ retry_attempt < max_retries
    /\ \E msg \in SubmitFailures :
         last_exception' = Exc("Exception", msg, calls + 1)
    /\ calls' = calls + 1
    /\ sleeps' = IF sleeps_after(retry_attempt, max_retries)
                   THEN Append(sleeps, backoff_delay(retry_delay, retry_attempt))
                   ELSE sleeps
    /\ retry_attempt' = retry_attempt + 1
    /\ UNCHANGED <<outerVars, statuses, jpc, cfgVars, generation_id, operation_id, pollVars, exc,
                   jobResult>>

\* base_generator.py:139  the loop is over: raise last_exception
RetryExhausted ==
    /\ jpc = "submit"
    /\ retry_attempt >= max_retries
    /\ exc' = last_exception
    /\ jpc' = "classify"
    /\ UNCHANGED <<outerVars, statuses, cfgVars, generation_id, retryVars, operation_id, pollVars,
                   jobResult>>

\* text_to_video.py:404  'quota' in str(e).lower() or 'limit' in str(e).lower()
IsQuotaMessage(msg) == msg \in {"quota exceeded", "rate limit"}

\* text_to_video.py:402-407  the except clause of _send_generation_request
classify_submit_error(e) ==
    IF IsQuotaMessage(e.msg)
      THEN Exc("APIQuotaExceededError", e.msg, e.at)
      ELSE Exc("GenerationError", "Failed to send request", e.at)

SendRequestFails ==
    /\ jpc = "classify"
    /\ exc' = classify_submit_error(exc)
    /\ jpc' = "handler"
    /\ UNCHANGED <<outerVars, statuses, cfgVars, generation_id, retryVars, operation_id, pollVars,
                   jobResult>>

\* a job marked completed as soon as its request was accepted
status_after_submit_completed == "completed"

\* text_to_video.py:113-116  GenerationStatus.PROCESSING.value
status_after_submit == "processing"

\* generate_video lines 110-119: the operation id is known, polling starts
\* (retry_on_error has returned, its locals are gone)
StartPolling ==
    /\ jpc = "submitted"
    /\ jpc' = "poll"
    /\ statuses' = update_generation_record(statuses, db, generation_id,
                                            status_after_submit)
    /\ retry_attempt' = 0
    /\ calls' = 0
    /\ sleeps' = <<>>
    /\ last_exception' = NoExc
    /\ UNCHANGED <<outerVars, cfgVars, generation_id, operation_id, pollVars, exc,
                   jobResult>>

\* ------------------------- TextToVideoGenerator.check_operation_status
\* text_to_video.py:250  if elapsed > self.timeout
timed_out(e, t) == e > t

\* text_to_video.py:246  while attempt < self.max_poll_attempts
loop_continues(attempt, n) == attempt < n

\* top of an iteration: the overall time budget is spent
PollTimedOut ==
    /\ jpc = "poll"
    /\ loop_continues(poll_attempt, max_poll_attempts)
    /\ timed_out(elapsed, timeout)
    /\ exc' = Exc("GenerationTimeoutError", "timed out after timeout seconds", 0)
    /\ jpc' = "handler"
    /\ UNCHANGED <<outerVars, statuses, cfgVars, generation_id, retryVars, operation_id, pollVars,
                   jobResult>>

\* the poll returns status 'completed': the loop returns the response
PollCompleted ==
    /\ jpc = "poll"
    /\ loop_continues(poll_attempt, max_poll_attempts)
    /\ ~timed_out(elapsed, timeout)
    /\ \E latency \in 0..MaxLatency : elapsed' = elapsed + latency
    /\ polls' = polls + 1
    /\ consec' = 0
    /\ jpc' = "download"
    /\ UNCHANGED <<outerVars, statuses, cfgVars, generation_id, retryVars, operation_id,
                   poll_attempt, transients, exc, jobResult>>

\* the poll returns status 'failed': GenerationFailedError with the
\* backend's message, re-raised by the loop
PollFailed ==
    /\ jpc = "poll"
    /\ loop_continues(poll_attempt, max_poll_attempts)
    /\ ~timed_out(elapsed, timeout)
    /\ \E latency \in 0..MaxLatency : elapsed' = elapsed + latency
    /\ polls' = polls + 1
    /\ consec' = 0
    /\ exc' = Exc("GenerationFailedError", "Generation failed: backend message", 0)
    /\ jpc' = "handler"
    /\ UNCHANGED <<outerVars, statuses, cfgVars, generation_id, retryVars, operation_id,
                   poll_attempt, transients, jobResult>>

\* the poll returns 'processing' or a status the loop does not know:
\* sleep one poll interval, count the attempt
PollContinues ==
    /\ jpc = "poll"
    /\ loop_continues(poll_attempt, max_poll_attempts)
    /\ ~timed_out(elapsed, timeout)
    /\ \E latency \in 0..MaxLatency : elapsed' = elapsed + latency + poll_interval
    /\ polls' = polls + 1
    /\ consec' = 0
    /\ poll_attempt' = poll_attempt + 1
    /\ UNCHANGED <<outerVars, statuses, jpc, cfgVars, generation_id, retryVars, operation_id,
                   transients, exc, jobResult>>

\* a raising poll that sleeps but is not counted as an attempt
PollRaisesUncounted ==
    /\ jpc = "poll"
    /\ loop_continues(poll_attempt, max_poll_attempts)
    /\ ~timed_out(elapsed, timeout)
    /\ polls < max_poll_attempts + 1
    /\ \E latency \in 0..MaxLatency : elapsed' = elapsed + latency + poll_interval
    /\ polls' = polls + 1
    /\ consec' = consec + 1
    /\ transients' = transients + 1
    /\ UNCHANGED <<outerVars, statuses, jpc, cfgVars, generation_id, retryVars, operation_id,
                   poll_attempt, exc, jobResult>>

\* the poll raises (a network error, a malformed response): logged, the
\* attempt is counted and the loop sleeps one poll interval
PollRaises ==
    /\ jpc = "poll"
    /\ loop_continues(poll_attempt, max_poll_attempts)
    /\ ~timed_out(elapsed, timeout)
    /\ \E latency \in 0..MaxLatency : elapsed' = elapsed + latency + poll_interval
    /\ polls' = polls + 1
    /\ consec' = consec + 1
    /\ transients' = transients + 1
    /\ poll_attempt' = poll_attempt + 1
    /\ UNCHANGED <<outerVars, statuses, jpc, cfgVars, generation_id, retryVars, operation_id,
                   exc, jobResult>>

\* running out of attempts reported as a failed generation
poll_exhausted_error_failed ==
    Exc("GenerationFailedError", "timed out after max_poll_attempts attempts", 0)

\* text_to_video.py:303  what the loop raises when it ran out of attempts
poll_exhausted_error ==
    Exc("GenerationTimeoutError", "timed out after max_poll_attempts attempts", 0)

PollExhausted ==
    /\ jpc = "poll"
    /\ ~loop_continues(poll_attempt, max_poll_attempts)
    /\ exc' = poll_exhausted_error
    /\ jpc' = "handler"
    /\ UNCHANGED <<outerVars, statuses, cfgVars, generation_id, retryVars, operation_id, pollVars,
                   jobResult>>

\* ------------------------------- TextToVideoGenerator._download_video
\* the output path of the video downloaded for the scene at index i
VideoNames == <<"video0.mp4", "video1.mp4", "video2.mp4", "video3.mp4", "video4.mp4">>
VideoName(i) == VideoNames[i + 1]

\* the path of the video the running job downloads
job_video == VideoName(cur)

DownloadOk ==
    /\ jpc = "download"
    /\ jobResult' = Result("success", job_video, None, None)
    /\ last_completed_video' = job_video
    /\ statuses' = update_generation_record(statuses, db, generation_id, "completed")
    /\ jpc' = "done"
    /\ UNCHANGED <<entry, seqVars, cancel_requested, toolVars, cfgVars, generation_id, retryVars,
                   operation_id, pollVars, exc>>

\* a non-200 response, a write failure or a timeout: GenerationError
DownloadFails ==
    /\ jpc = "download"
    /\ \E msg \in DownloadFailures : exc' = Exc("GenerationError", msg, 0)
    /\ jpc' = "handler"
    /\ UNCHANGED <<outerVars, statuses, cfgVars, generation_id, retryVars, operation_id, pollVars,
                   jobResult>>

\* ------------------------------ the except clauses of generate_video
\* text_to_video.py:157-215  which clause catches the exception
error_type_of(cls) ==
    CASE cls = "APIQuotaExceededError" -> "quota_exceeded"
      [] cls = "GenerationTimeoutError" -> "timeout"
      [] cls = "GenerationFailedError" -> "generation_failed"
      [] OTHER -> "unknown"

\* the 'error' text each clause returns
error_text_of(e) ==
    CASE e.cls = "APIQuotaExceededError" -> "API quota exceeded"
      [] e.cls = "GenerationTimeoutError" -> "Generation timed out"
      [] OTHER -> e.msg

\* Every clause calls update_generation_record(generation_id, ...) before it
\* returns; generation_id is assigned only after validation passed, so the
\* clause itself raises UnboundLocalError when validation failed.
HandleError ==
    /\ jpc = "handler"
    /\ jobResult' = IF generation_id = "unbound"
                      THEN Result("raised", None, None, "UnboundLocalError")
                      ELSE Result("error", None, error_type_of(exc.cls),
                                  error_text_of(exc))
    /\ statuses' = IF generation_id = "unbound"
                     THEN statuses
                     ELSE update_generation_record(statuses, db, generation_id,
                                                   "failed")
    /\ jpc' = "done"
    /\ UNCHANGED <<outerVars, cfgVars, generation_id, retryVars, operation_id, pollVars,
                   exc>>

\* ------------------------- TextToVideoGenerator.cancel_generation
\* text_to_video.py:560-579  logs the operation id and returns True; the
\* backend call is a TODO, no flag is set and nothing the poll loop or the
\* scene loop reads is changed.  Callable once an operation id exists.
cancel_generation ==
    /\ operation_id # None
    /\ ~cancel_requested
    /\ cancel_requested' = TRUE
    /\ UNCHANGED <<entry, seqVars, last_completed_video, toolVars, jobVars>>

\* ------------------------------------- SceneManager.extract_last_frame
\* what the encoder side does when a last frame is asked for
ExtractEnvs == {"no_ffmpeg", "missing_video", "probe_failed", "extract_failed",
                "no_output", "extracted"}

\* scene_manager.py:491-563.  Every path raises: ffmpeg missing (491), the
\* video missing (495), a non-zero exit of ffprobe or ffmpeg (526, 550), no
\* output file (553); and when the frame was extracted, line 556 calls
\* logger.success, which logging.Logger does not have, so the AttributeError
\* is wrapped into VideoMergeError by line 563.
extract_last_frame(env) ==
    [raised |-> TRUE,
     value |-> None,
     error |-> CASE env = "no_ffmpeg" -> "ffmpeg not available for frame extraction"
                 [] env = "missing_video" -> "Video not found"
                 [] env = "extracted" ->
                       "Frame extraction failed: no attribute 'success'"
                 [] OTHER -> "Frame extraction failed"]

\* ----------------------------------- SceneManager.generate_single_scene
\* scene_manager.py:281-312  _generate_image_scene: transition mode when a
\* last frame is given, single-image mode otherwise
image_dispatch(source_image, last_frame) ==
    [kind |-> IF last_frame # None THEN "transition" ELSE "image",
     source_image |-> source_image,
     last_frame |-> last_frame]

\* scene_manager.py:189-242  which generator the scene goes to, and with
\* which frames.  x is the outcome of extract_last_frame (used only on the
\* chaining branch).  The tests for explicit frames are elif branches of
\* the chaining test `scene_index > 0 and previous_video_path`.
resolve(scene, prev, x) ==
    IF scene.scene_index > 0 /\ prev # None
      THEN IF scene.use_previous_frame \/ scene.extend_from_previous
             THEN IF x.raised
                    THEN [kind |-> "raised", source_image |-> None,
                          last_frame |-> None]
                    ELSE image_dispatch(x.value, scene.last_frame)
             ELSE [kind |-> "text", source_image |-> None, last_frame |-> None]
      ELSE IF scene.first_frame # None /\ scene.last_frame # None
             THEN image_dispatch(scene.first_frame, scene.last_frame)
             ELSE IF scene.first_frame # None
                    THEN image_dispatch(scene.first_frame, scene.last_frame)
                    ELSE [kind |-> "text", source_image |-> None,
                          last_frame |-> None]

\* the scene_data dict being generated
scene_data == scenes[cur + 1]

\* scene_manager.py:255-262, 420-425  the error dict built by an except
\* clause of generate_single_scene or generate_scene_sequence
scene_error(text, idx) == Tagged(Result("error", None, None, text), idx)

\* generate_single_scene up to the call of a generator
ResolveScene ==
    /\ spc = "resolve"
    /\ \E env \in ExtractEnvs :
         LET x == extract_last_frame(env)
             d == resolve(scene_data, previous_video_path, x)
         IN /\ dispatch' = d
            /\ IF d.kind = "raised"
                 THEN /\ sceneResult' = scene_error(x.error, scene_data.scene_index)
                      /\ spc' = "scene_returned"
                      /\ UNCHANGED <<jpc, valid>>
                 ELSE IF d.kind = "text"
                        THEN /\ spc' = "text_job"
                             /\ jpc' = "validate"
                             /\ valid' = (scene_data.prompt # None)
                             /\ UNCHANGED sceneResult
                        ELSE /\ spc' = "image_job"
                             /\ UNCHANGED <<jpc, valid, sceneResult>>
    /\ UNCHANGED <<entry, scenes, global_template, cur, previous_video_path, results,
                   events, last_completed_video, cancel_requested, toolVars, max_retries, retry_delay, max_poll_attempts,
                   timeout, db, generation_id, retryVars, operation_id, pollVars, exc,
                   jobResult, statuses>>

\* image_to_video.py:100-232 and 259-397.  generate_from_image and
\* generate_with_frames never get as far as a request: either validation
\* raises ValueError, or create_generation_record is called with the keyword
\* generation_type, which BaseGenerator.create_generation_record does not
\* take (TypeError).  Both land in `except Exception`, which reads
\* generation_id before it was assigned: UnboundLocalError leaves the
\* generator and is caught by generate_single_scene.
ImageGeneratorRaises ==
    /\ spc = "image_job"
    /\ sceneResult' = scene_error("UnboundLocalError", scene_data.scene_index)
    /\ spc' = "scene_returned"
    /\ UNCHANGED <<entry, scenes, global_template, cur, previous_video_path, results,
                   events, dispatch, last_completed_video, cancel_requested, toolVars, jobVars>>

\* scene_manager.py:244  logging.Logger has no method `success`
logger_has_success == FALSE

\* scene_manager.py:244-262  generate_video came back.  A raise is caught by
\* the except clause.  On status 'success' line 245 calls logger.success,
\* which raises AttributeError, caught by the same clause; otherwise the
\* generator's result is returned.
scene_result_of(job, idx) ==
    IF job.status = "raised"
      THEN scene_error(job.error, idx)
      ELSE IF job.status = "success" /\ ~logger_has_success
             THEN scene_error("no attribute 'success'", idx)
             ELSE Tagged(job, idx)

TextJobReturned ==
    /\ spc = "text_job"
    /\ jpc = "done"
    /\ sceneResult' = scene_result_of(jobResult, scene_data.scene_index)
    /\ spc' = "scene_returned"
    /\ jpc' = "idle"
    /\ generation_id' = "unbound"
    /\ retry_attempt' = 0
    /\ calls' = 0
    /\ sleeps' = <<>>
    /\ last_exception' = NoExc
    /\ operation_id' = None
    /\ poll_attempt' = 0
    /\ polls' = 0
    /\ elapsed' = 0
    /\ consec' = 0
    /\ transients' = 0
    /\ exc' = NoExc
    /\ statuses' = <<>>
    /\ UNCHANGED <<entry, scenes, global_template, cur, previous_video_path, results,
                   events, dispatch, last_completed_video, cancel_requested, toolVars, cfgVars, jobResult>>

\* --------------------------------- SceneManager.generate_scene_sequence
\* scene_manager.py:363-368  apply_global_template raises on a prompt that
\* is None (None has no strip), but only when a template is given
template_raises(scene, template) == template # "" /\ scene.prompt = None

\* scene_manager.py:354-359  progress_callback(index, total, status, message)
Event(index, total, status) == [index |-> index, total |-> total, status |-> status]

\* scene_manager.py:389-410  the event that follows a scene's result
outcome_status(result) == IF result.status = "success" THEN "completed" ELSE "failed"

\* a final event that carries the index of the last scene
done_event_last_index(total) == Event(total - 1, total, "done")

\* scene_manager.py:437-444  the final event
done_event(total) == Event(total, total, "done")

\* scene_manager.py:349-369  next iteration: a 'processing' event is emitted
\* (the sequence runs with a progress sink that returns normally; the
\* generators' own progress never reaches it, the wrapper coroutine built by
\* the lambda at line 375 is not awaited); then the global template is applied
\* inside the try block; when that raises, the except clause records the
\* error as this scene's outcome and the loop goes on
SeqNextScene ==
    /\ entry = "sequence"
    /\ spc = "loop"
    /\ cur < Len(scenes)
    /\ IF template_raises(scene_data, global_template)
         THEN /\ results' = Append(results,
                                   scene_error("template application failed", cur))
              /\ events' = events \o <<Event(cur, Len(scenes), "processing"),
                                        Event(cur + 1, Len(scenes), "error")>>
              /\ cur' = cur + 1
              /\ spc' = "loop"
         ELSE /\ events' = Append(events, Event(cur, Len(scenes), "processing"))
              /\ spc' = "resolve"
              /\ UNCHANGED <<results, cur>>
    /\ UNCHANGED <<entry, scenes, global_template, previous_video_path, dispatch,
                   sceneResult, last_completed_video, cancel_requested, toolVars, jobVars>>

\* scene_manager.py:390  the chain anchor after a scene's result is known
next_previous_video_path(prev, result) ==
    IF result.status = "success" THEN result.video_path ELSE prev

\* a loop that stops at the first failed scene
SeqRecordAbortOnFailure ==
    /\ entry = "sequence"
    /\ spc = "scene_returned"
    /\ results' = Append(results, sceneResult)
    /\ previous_video_path' = next_previous_video_path(previous_video_path, sceneResult)
    /\ events' = Append(events, Event(cur + 1, Len(scenes), outcome_status(sceneResult)))
    /\ cur' = IF sceneResult.status = "success" THEN cur + 1 ELSE Len(scenes)
    /\ spc' = "loop"
    /\ jobResult' = NoResult
    /\ UNCHANGED <<entry, scenes, global_template, dispatch, sceneResult,
                   last_completed_video, cancel_requested, toolVars, jpc, cfgVars,
                   generation_id, retryVars,
                   operation_id, pollVars, exc, statuses>>

\* a loop that puts each new result in front of the earlier ones
SeqRecordPrepend ==
    /\ entry = "sequence"
    /\ spc = "scene_returned"
    /\ results' = <<sceneResult>> \o results
    /\ previous_video_path' = next_previous_video_path(previous_video_path, sceneResult)
    /\ events' = Append(events, Event(cur + 1, Len(scenes), outcome_status(sceneResult)))
    /\ cur' = cur + 1
    /\ spc' = "loop"
    /\ jobResult' = NoResult
    /\ UNCHANGED <<entry, scenes, global_template, dispatch, sceneResult,
                   last_completed_video, cancel_requested, toolVars, jpc, cfgVars,
                   generation_id, retryVars,
                   operation_id, pollVars, exc, statuses>>

\* scene_manager.py:250-251, 385-414  generate_single_scene returned: the
\* result, tagged with the scene's index, is appended, and a success moves
\* the chain anchor
SeqRecord ==
    /\ entry = "sequence"
    /\ spc = "scene_returned"
    /\ results' = Append(results, sceneResult)
    /\ previous_video_path' = next_previous_video_path(previous_video_path, sceneResult)
    /\ events' = Append(events, Event(cur + 1, Len(scenes), outcome_status(sceneResult)))
    /\ cur' = cur + 1
    /\ spc' = "loop"
    /\ jobResult' = NoResult
    /\ UNCHANGED <<entry, scenes, global_template, dispatch, sceneResult,
                   last_completed_video, cancel_requested, toolVars, jpc, cfgVars,
                   generation_id, retryVars,
                   operation_id, pollVars, exc, statuses>>

\* scene_manager.py:436-451  all scenes were attempted: return results
SeqReturn ==
    /\ entry = "sequence"
    /\ spc = "loop"
    /\ cur >= Len(scenes)
    /\ spc' = "seq_returned"
    /\ events' = Append(events, done_event(Len(scenes)))
    /\ UNCHANGED <<entry, scenes, global_template, cur, previous_video_path, results,
                   dispatch, sceneResult, last_completed_video, cancel_requested, toolVars, jobVars>>

Next ==
    \/ Validate
    \/ CreateRecord
    \/ RetryCallReturns
    \/ RetryCallRaises
    \/ RetryExhausted
    \/ SendRequestFails
    \/ StartPolling
    \/ PollTimedOut
    \/ PollCompleted
    \/ PollFailed
    \/ PollContinues
    \/ PollRaises
    \/ PollExhausted
    \/ DownloadOk
    \/ DownloadFails
    \/ HandleError
    \/ cancel_generation

Spec == Init /\ [][Next]_vars

\* --------------------------------------------- SceneManager operations
Flags == {<<FALSE, FALSE>>, <<TRUE, FALSE>>, <<FALSE, TRUE>>, <<TRUE, TRUE>>}

SceneDict(idx, flags, first, last, prompt) ==
    [scene_index |-> idx,
     use_previous_frame |-> flags[1],
     extend_from_previous |-> flags[2],
     first_frame |-> first,
     last_frame |-> last,
     prompt |-> prompt]

\* the scene_data dicts tried for a direct call of generate_single_scene
SingleScenes ==
    { SceneDict(idx, fl, first, last, prompt) :
        idx \in {0, 1}, fl \in Flags, first \in {None, "first.png"},
        last \in {None, "last.png"}, prompt \in {None, "prompt"} }

\* the scene kinds tried in a scene list: no frames or both frames
ListedScenes(idx) ==
    { SceneDict(idx, fl, fr[1], fr[2], prompt) :
        fl \in Flags \ {<<TRUE, TRUE>>},
        fr \in {<<None, None>>, <<"first.png", "last.png">>},
        prompt \in {None, "prompt"} }

\* scene lists of length n; scene_index is the position in the list
SceneLists(n) ==
    { sl \in [1..n -> UNION { ListedScenes(i) : i \in 0..(n - 1) }] :
        \A k \in 1..n : sl[k].scene_index = k - 1 }

\* the generators a SceneManager creates in its constructor
SceneGenerators ==
    /\ max_retries = SceneRetries
    /\ retry_delay = default_retry_delay
    /\ max_poll_attempts = ScenePollAttempts
    /\ timeout = poll_interval
    /\ valid = TRUE
    /\ db = "ok"
    /\ jpc = "idle"
    /\ JobReset

SceneInit ==
    /\ SceneGenerators
    /\ ToolIdle
    /\ cur = 0
    /\ results = <<>>
    /\ dispatch = NoDispatch
    /\ sceneResult = Tagged(NoResult, 0)
    /\ events = <<>>
    /\ last_completed_video = None
    /\ cancel_requested = FALSE
    /\ \/ /\ entry = "scene"
          /\ \E sc \in SingleScenes : scenes = <<sc>>
          /\ global_template = ""
          /\ previous_video_path \in {None, "previous.mp4"}
          /\ spc = "resolve"
       \/ /\ entry = "sequence"
          /\ \E n \in 0..MaxScenes : scenes \in SceneLists(n)
          /\ global_template \in {"", "template"}
          /\ previous_video_path = None
          /\ spc = "loop"

SceneNext ==
    \/ Next
    \/ ResolveScene
    \/ ImageGeneratorRaises
    \/ TextJobReturned
    \/ SeqNextScene
    \/ SeqRecord
    \/ SeqReturn

SceneSpec == SceneInit /\ [][SceneNext]_vars

\* ------------------------------- a progress sink that raises
\* scene_manager.py:353-359  the 'processing' event is awaited before the
\* try block: an exception of the sink leaves generate_scene_sequence
SinkRaisesOnProcessing ==
    /\ entry = "sequence"
    /\ spc = "loop"
    /\ cur < Len(scenes)
    /\ events' = Append(events, Event(cur, Len(scenes), "processing"))
    /\ spc' = "seq_raised"
    /\ UNCHANGED <<entry, scenes, global_template, cur, previous_video_path,
                   results, dispatch, sceneResult, last_completed_video,
                   cancel_requested, toolVars, jobVars>>

\* scene_manager.py:416-434  the except clause has recorded the error of the
\* template application and awaits the 'error' event: an exception of the
\* sink leaves the except clause and generate_scene_sequence
SinkRaisesOnError ==
    /\ entry = "sequence"
    /\ spc = "loop"
    /\ cur < Len(scenes)
    /\ template_raises(scene_data, global_template)
    /\ results' = Append(results,
                         scene_error("template application failed", cur))
    /\ events' = events \o <<Event(cur, Len(scenes), "processing"),
                             Event(cur + 1, Len(scenes), "error")>>
    /\ spc' = "seq_raised"
    /\ UNCHANGED <<entry, scenes, global_template, cur, previous_video_path,
                   dispatch, sceneResult, last_completed_video,
                   cancel_requested, toolVars, jobVars>>

\* scene_manager.py:385-434  generate_single_scene returned and its result
\* was appended; the 'completed' or 'failed' event is awaited inside the try
\* block, so an exception of the sink is caught by `except Exception`, which
\* appends an error record for the same scene and awaits an 'error' event.
\* When the sink raises on that one too, the exception leaves
\* generate_scene_sequence; otherwise the loop goes on.
SinkRaisesOnOutcome ==
    /\ entry = "sequence"
    /\ spc = "scene_returned"
    /\ results' = results \o <<sceneResult, scene_error("sink raised", cur)>>
    /\ previous_video_path' = next_previous_video_path(previous_video_path, sceneResult)
    /\ events' = events \o <<Event(cur + 1, Len(scenes), outcome_status(sceneResult)),
                             Event(cur + 1, Len(scenes), "error")>>
    /\ \E again \in BOOLEAN :
         IF again
           THEN /\ spc' = "seq_raised"
                /\ cur' = cur
           ELSE /\ spc' = "loop"
                /\ cur' = cur + 1
    /\ jobResult' = NoResult
    /\ UNCHANGED <<entry, scenes, global_template, dispatch, sceneResult,
                   last_completed_video, cancel_requested, toolVars, jpc, cfgVars,
                   generation_id, retryVars,
                   operation_id, pollVars, exc, statuses>>

\* scene_manager.py:436-444  the 'done' event is awaited after the loop,
\* outside any try block
SinkRaisesOnDone ==
    /\ entry = "sequence"
    /\ spc = "loop"
    /\ cur >= Len(scenes)
    /\ events' = Append(events, done_event(Len(scenes)))
    /\ spc' = "seq_raised"
    /\ UNCHANGED <<entry, scenes, global_template, cur, previous_video_path,
                   results, dispatch, sceneResult, last_completed_video,
                   cancel_requested, toolVars, jobVars>>

\* generate_scene_sequence with a progress sink that may raise on any event
SinkInit ==
    /\ SceneInit
    /\ entry = "sequence"

SinkNext ==
    \/ SceneNext
    \/ SinkRaisesOnProcessing
    \/ SinkRaisesOnError
    \/ SinkRaisesOnOutcome
    \/ SinkRaisesOnDone

SinkSpec == SinkInit /\ [][SinkNext]_vars

\* ---------------------------------- SceneManager.apply_global_template
\* Text is a sequence of one-character strings.
PromptChars == {"a", " ", ".", "!", "?"}
TemplateChars == {"t", " "}

Texts(chars, n) == UNION { [1..k -> chars] : k \in 0..n }

\* str.strip(): whitespace removed at both ends
RECURSIVE lstrip(_)
lstrip(s) ==
    IF s = <<>> THEN s
    ELSE IF Head(s) = " " THEN lstrip(Tail(s)) ELSE s

RECURSIVE rstrip(_)
rstrip(s) ==
    IF s = <<>> THEN s
    ELSE IF s[Len(s)] = " " THEN rstrip(SubSeq(s, 1, Len(s) - 1)) ELSE s

strip(s) == rstrip(lstrip(s))

\* a test for closing punctuation that knows the period only
ends_with_period(s) == s[Len(s)] = "."

\* scene_manager.py:133  scene_prompt[-1] in '.!?'
ends_with_punctuation(s) == s[Len(s)] \in {".", "!", "?"}

\* scene_manager.py:124-141
apply_global_template(scene_prompt, template) ==
    IF template = <<>> \/ strip(template) = <<>>
      THEN scene_prompt
      ELSE LET sp == strip(scene_prompt)
               tp == strip(template)
           IN IF sp # <<>> /\ tp # <<>>
                THEN (IF ~ends_with_punctuation(sp) THEN sp \o <<".">> ELSE sp)
                        \o <<" ">> \o tp
                ELSE sp

\* a direct call, as in demo_scene_manager.test_template_application
CallApplyTemplate ==
    /\ tpc = "call"
    /\ template_result' = apply_global_template(original_prompt, template_text)
    /\ tpc' = "returned"
    /\ UNCHANGED <<coreVars, postVars, edVars, mergeVars, original_prompt,
                   template_text, prompt_text, sent_prompt, sent_prompts>>

\* scene_manager.py:362-368  inside generate_scene_sequence: a template that
\* is not the empty string is applied and the result is stored back into
\* scene_data['prompt']
SeqApplyTemplate ==
    /\ tpc = "apply"
    /\ prompt_text' = IF template_text # <<>>
                        THEN apply_global_template(prompt_text, template_text)
                        ELSE prompt_text
    /\ tpc' = "dispatch"
    /\ UNCHANGED <<coreVars, postVars, edVars, mergeVars, original_prompt,
                   template_text, template_result, sent_prompt, sent_prompts>>

\* scene_manager.py:372, 273-274 and 296, 306  generate_single_scene hands
\* scene_data['prompt'] to the generator it dispatches to
SeqDispatchPrompt ==
    /\ tpc = "dispatch"
    /\ sent_prompt' = prompt_text
    /\ sent_prompts' = Append(sent_prompts, prompt_text)
    /\ tpc' = "sent"
    /\ UNCHANGED <<coreVars, postVars, edVars, mergeVars, original_prompt,
                   template_text, template_result, prompt_text>>

TemplateInit ==
    /\ entry = "template"
    /\ SceneGenerators
    /\ SceneIdle
    /\ project_scenes = <<>>
    /\ current_scene_index = -1
    /\ use_previous_frame_check = FALSE
    /\ extend_from_previous_check = FALSE
    /\ chain_checks_enabled = TRUE
    /\ merge_videos_requested = <<>>
    /\ MergeIdle
    /\ PostIdle
    /\ tpc \in {"call", "apply"}
    /\ original_prompt \in Texts(PromptChars, MaxPromptLen)
    /\ template_text \in Texts(TemplateChars, MaxTemplateLen)
    /\ template_result = <<>>
    /\ prompt_text = original_prompt
    /\ sent_prompt = <<>>
    /\ sent_prompts = <<>>

TemplateNext ==
    \/ CallApplyTemplate
    \/ SeqApplyTemplate
    \/ SeqDispatchPrompt

TemplateSpec == TemplateInit /\ [][TemplateNext]_vars

\* generate_scene_sequence has returned and is called again with the same
\* scene list (for example to re-generate after a failure) and the same
\* global template: the scene_data dicts are the caller's objects, so the
\* second call finds the prompts the first call stored
SeqCalledAgain ==
    /\ tpc = "sent"
    /\ Len(sent_prompts) < MaxRuns
    /\ tpc' = "apply"
    /\ UNCHANGED <<coreVars, postVars, edVars, mergeVars, original_prompt,
                   template_text, template_result, prompt_text, sent_prompt,
                   sent_prompts>>

RerunInit ==
    /\ entry = "rerun"
    /\ SceneGenerators
    /\ SceneIdle
    /\ project_scenes = <<>>
    /\ current_scene_index = -1
    /\ use_previous_frame_check = FALSE
    /\ extend_from_previous_check = FALSE
    /\ chain_checks_enabled = TRUE
    /\ merge_videos_requested = <<>>
    /\ MergeIdle
    /\ PostIdle
    /\ tpc = "apply"
    /\ original_prompt \in Texts(PromptChars, MaxPromptLen)
    /\ template_text \in Texts(TemplateChars, MaxTemplateLen)
    /\ template_result = <<>>
    /\ prompt_text = original_prompt
    /\ sent_prompt = <<>>
    /\ sent_prompts = <<>>

RerunNext ==
    \/ SeqApplyTemplate
    \/ SeqDispatchPrompt
    \/ SeqCalledAgain

RerunSpec == RerunInit /\ [][RerunNext]_vars

\* ------------------------------------- ProjectData and the scene editor
\* scene_manager_tab.py:32-62  the fields of SceneData the editor's chaining
\* controls touch
SceneData(scene_id, use_previous_frame, extend_from_previous) ==
    [scene_id |-> scene_id,
     use_previous_frame |-> use_previous_frame,
     extend_from_previous |-> extend_from_previous,
     status |-> "pending",
     video_path |-> None]

\* list.pop(index) and list.insert(index, x), indices counted from 0
list_pop(l, index) == SubSeq(l, 1, index) \o SubSeq(l, index + 2, Len(l))
list_insert(l, index, x) == SubSeq(l, 1, index) \o <<x>> \o SubSeq(l, index + 1, Len(l))

\* scene_manager_tab.py:152-155  ProjectData.remove_scene
remove_scene(l, index) ==
    IF 0 <= index /\ index < Len(l) THEN list_pop(l, index) ELSE l

\* scene_manager_tab.py:162-164  "Update scene IDs"
renumber(l) == [i \in 1..Len(l) |-> [l[i] EXCEPT !.scene_id = i]]

\* scene_manager_tab.py:157-164  ProjectData.reorder_scene
reorder_scene(l, from_index, to_index) ==
    IF 0 <= from_index /\ from_index < Len(l) /\ 0 <= to_index /\ to_index < Len(l)
      THEN renumber(list_insert(list_pop(l, from_index), to_index,
                                l[from_index + 1]))
      ELSE l

\* scene_manager_tab.py:892-917, 919-954  on_scene_selected(index): the index
\* is stored; load_scene_data puts the scene's flags into the checkboxes
\* (signals blocked) and disables them for the first scene; it returns
\* early on an index outside the list
SelectScene(l, index) ==
    /\ current_scene_index' = index
    /\ IF 0 <= index /\ index < Len(l)
         THEN /\ use_previous_frame_check' = l[index + 1].use_previous_frame
              /\ extend_from_previous_check' = l[index + 1].extend_from_previous
              /\ chain_checks_enabled' = (index # 0)
         ELSE UNCHANGED <<use_previous_frame_check, extend_from_previous_check,
                          chain_checks_enabled>>

\* scene_manager_tab.py:769-802  a new scene without chaining is appended
\* and selected
add_scene ==
    /\ Len(project_scenes) < MaxProjectScenes
    /\ LET l == Append(project_scenes,
                       SceneData(Len(project_scenes) + 1, FALSE, FALSE))
       IN /\ project_scenes' = l
          /\ SelectScene(l, Len(l) - 1)
    /\ UNCHANGED <<coreVars, postVars, tplVars, mergeVars, merge_videos_requested>>

\* scene_manager_tab.py:804-841  the selected scene is removed from the
\* project and from the list widget.  The widget then reports its new
\* current row: the row that took the removed one's place (the last row
\* when the last one was removed), or the row number that neighbour had
\* before the removal.
delete_scene ==
    /\ current_scene_index >= 0
    /\ current_scene_index < Len(project_scenes)
    /\ LET l == remove_scene(project_scenes, current_scene_index)
           settled == IF current_scene_index < Len(l)
                        THEN current_scene_index ELSE Len(l) - 1
       IN /\ project_scenes' = l
          /\ \E row \in {settled} \cup
                         (IF current_scene_index < Len(l)
                            THEN {current_scene_index + 1} ELSE {}) :
                SelectScene(l, row)
    /\ UNCHANGED <<coreVars, postVars, tplVars, mergeVars, merge_videos_requested>>

\* the row load_project_data and the loop restoring the selection leave
\* current: the first row whose scene has the id of the moved scene
row_of_id(l, id) == CHOOSE i \in 0..(Len(l) - 1) :
                      /\ l[i + 1].scene_id = id
                      /\ \A j \in 0..(i - 1) : l[j + 1].scene_id # id

\* scene_manager_tab.py:843-864
move_scene_up ==
    /\ current_scene_index > 0
    /\ current_scene_index < Len(project_scenes)
    /\ LET l == reorder_scene(project_scenes, current_scene_index,
                              current_scene_index - 1)
       IN /\ project_scenes' = l
          /\ SelectScene(l, row_of_id(l, l[current_scene_index].scene_id))
    /\ UNCHANGED <<coreVars, postVars, tplVars, mergeVars, merge_videos_requested>>

\* scene_manager_tab.py:866-890
move_scene_down ==
    /\ current_scene_index >= 0
    /\ current_scene_index < Len(project_scenes) - 1
    /\ LET l == reorder_scene(project_scenes, current_scene_index,
                              current_scene_index + 1)
       IN /\ project_scenes' = l
          /\ SelectScene(l, row_of_id(l, l[current_scene_index + 2].scene_id))
    /\ UNCHANGED <<coreVars, postVars, tplVars, mergeVars, merge_videos_requested>>

\* the user clicks a row of the scene list
on_scene_selected ==
    /\ \E index \in 0..(Len(project_scenes) - 1) :
         /\ index # current_scene_index
         /\ SelectScene(project_scenes, index)
    /\ UNCHANGED <<coreVars, postVars, tplVars, mergeVars, merge_videos_requested, project_scenes>>

\* scene_manager_tab.py:995-1004, 1015-1034  update_scene with the data
\* on_scene_data_changed collects: the scene's flags become the checkbox
\* states
scene_with_checks(scene, use_check, extend_check) ==
    [scene EXCEPT !.use_previous_frame = use_check,
                  !.extend_from_previous = extend_check]

\* the user clicks one of the chaining checkboxes (possible only while they
\* are enabled): stateChanged calls on_scene_data_changed
on_scene_data_changed ==
    /\ current_scene_index >= 0
    /\ current_scene_index < Len(project_scenes)
    /\ chain_checks_enabled
    /\ \E box \in {"use_previous_frame", "extend_from_previous"} :
         LET use_check == IF box = "use_previous_frame"
                            THEN ~use_previous_frame_check
                            ELSE use_previous_frame_check
             extend_check == IF box = "extend_from_previous"
                               THEN ~extend_from_previous_check
                               ELSE extend_from_previous_check
         IN /\ use_previous_frame_check' = use_check
            /\ extend_from_previous_check' = extend_check
            /\ project_scenes' =
                  [project_scenes EXCEPT ![current_scene_index + 1] =
                      scene_with_checks(@, use_check, extend_check)]
    /\ UNCHANGED <<coreVars, postVars, tplVars, mergeVars, merge_videos_requested,
                   current_scene_index, chain_checks_enabled>>

\* a new project: no scenes, nothing selected
EditorInit ==
    /\ entry = "editor"
    /\ SceneGenerators
    /\ SceneIdle
    /\ tpc = "idle"
    /\ original_prompt = <<>>
    /\ template_text = <<>>
    /\ template_result = <<>>
    /\ prompt_text = <<>>
    /\ sent_prompt = <<>>
    /\ sent_prompts = <<>>
    /\ project_scenes = <<>>
    /\ current_scene_index = -1
    /\ use_previous_frame_check = FALSE
    /\ extend_from_previous_check = FALSE
    /\ chain_checks_enabled = TRUE
    /\ merge_videos_requested = <<>>
    /\ MergeIdle
    /\ PostIdle

EditorNext ==
    \/ add_scene
    \/ delete_scene
    \/ move_scene_up
    \/ move_scene_down
    \/ on_scene_selected
    \/ on_scene_data_changed

EditorSpec == EditorInit /\ [][EditorNext]_vars

\* ------------------------------------------------ merging a project
\* SceneData.status: pending, processing, done, failed
Statuses == {"pending", "processing", "done", "failed"}

\* the video_path arguments of update_scene_status
VideoPaths == {None, "scene.mp4"}

\* scene_manager_tab.py:1301-1334  update_scene_status(scene_index, status,
\* video_path): the status is stored, the path only when one is given; an
\* index outside the list is ignored
update_scene_status ==
    /\ \E scene_index \in -1..Len(project_scenes), status \in Statuses,
          video_path \in VideoPaths :
         /\ 0 <= scene_index /\ scene_index < Len(project_scenes)
         /\ project_scenes' =
              [project_scenes EXCEPT ![scene_index + 1] =
                  [@ EXCEPT !.status = status,
                            !.video_path = IF video_path # None
                                             THEN video_path ELSE @]]
    /\ UNCHANGED <<coreVars, postVars, tplVars, mergeVars,
                   current_scene_index, use_previous_frame_check,
                   extend_from_previous_check, chain_checks_enabled,
                   merge_videos_requested>>

\* all(...) alone, true of a project without scenes
is_all_completed_vacuous(l) == \A i \in 1..Len(l) : l[i].status = "done"

\* scene_manager_tab.py:170-172  ProjectData.is_all_completed
is_all_completed(l) ==
    Len(l) > 0 /\ \A i \in 1..Len(l) : l[i].status = "done"

\* scene_manager_tab.py:1252  the paths of the scenes that have one
RECURSIVE video_paths_of(_)
video_paths_of(l) ==
    IF l = <<>> THEN <<>>
    ELSE (IF l[1].video_path # None THEN <<l[1].video_path>> ELSE <<>>)
            \o video_paths_of(Tail(l))

\* scene_manager_tab.py:1242-1266  merge_all_videos: unless every scene is
\* done and has a video, a warning is shown and nothing is emitted
merge_all_videos ==
    /\ Len(merge_videos_requested) < MaxMergeRequests
    /\ is_all_completed(project_scenes)
    /\ LET video_paths == video_paths_of(project_scenes)
       IN /\ Len(video_paths) = Len(project_scenes)
          /\ merge_videos_requested'
               = Append(merge_videos_requested, video_paths)
    /\ UNCHANGED <<coreVars, postVars, tplVars, mergeVars, project_scenes,
                   current_scene_index, use_previous_frame_check,
                   extend_from_previous_check, chain_checks_enabled>>

\* a new project whose scenes are added, deleted, moved, generated (their
\* status reported) and merged
ProjectInit ==
    /\ entry = "project"
    /\ SceneGenerators
    /\ SceneIdle
    /\ ToolIdle

ProjectNext ==
    \/ (Len(project_scenes) < MaxMergeScenes /\ add_scene)
    \/ delete_scene
    \/ move_scene_up
    \/ move_scene_down
    \/ on_scene_selected
    \/ update_scene_status
    \/ merge_all_videos

ProjectSpec == ProjectInit /\ [][ProjectNext]_vars

\* ------------------------------------------------ merging scene videos
\* what operation op writes into its list file
list_of(op) == IF op = 1 THEN "list1" ELSE "list2"
partial_of(op) == IF op = 1 THEN "partial1" ELSE "partial2"

\* video_merger.py:218-224  a fresh name from tempfile.NamedTemporaryFile
temp_name(op) == IF op = 1 THEN "tmp1.txt" ELSE "tmp2.txt"

\* video_merger.py:218-224 / scene_manager.py:712  the path of the list file
concat_file(cls, op) ==
    IF cls = "VideoMerger" THEN temp_name(op) ELSE "concat_list.txt"

\* scene_manager.py:712-722 is inside the try block whose finally clause
\* removes the list; video_merger.py:218-233 is before the try block
write_is_guarded(cls) == cls = "SceneManager"

\* _merge_simple, first part: the list file is created (or truncated) and
\* the video paths are written.  A write may fail (disk full, a path that
\* cannot be encoded) and leaves what was written so far.
WriteConcatList(op) ==
    /\ mpc[op] = "start"
    /\ LET f == concat_file(merger[op], op)
       IN \E written \in BOOLEAN :
            IF written
              THEN /\ fs' = [fs EXCEPT ![f] = list_of(op)]
                   /\ mpc' = [mpc EXCEPT ![op] = "written"]
                   /\ merr' = merr
              ELSE /\ fs' = [fs EXCEPT ![f] = partial_of(op)]
                   /\ merr' = [merr EXCEPT ![op] = "write failed"]
                   /\ mpc' = [mpc EXCEPT ![op] =
                                 IF write_is_guarded(merger[op])
                                   THEN "cleanup" ELSE "left"]
    /\ UNCHANGED <<coreVars, postVars, tplVars, edVars, merger, encoder_read, exit_code,
                   output_exists, mresult>>

\* video_merger.py:269-277 / scene_manager.py:744-750  the checks after the
\* encoder ran; None when both pass
encoder_error(code, exists) ==
    IF code # 0 THEN "ffmpeg failed: stderr"
    ELSE IF ~exists THEN "output file not created"
    ELSE None

\* _merge_simple, second part: the encoder is started on the list path.  It
\* may fail to start; otherwise it reads whatever the list path holds at
\* that moment, exits with 0 or not (never 0 without a complete list), and
\* the output file exists or not.
RunEncoder(op) ==
    /\ mpc[op] = "written"
    /\ LET f == concat_file(merger[op], op)
       IN \/ /\ merr' = [merr EXCEPT ![op] = "encoder did not start"]
             /\ UNCHANGED <<encoder_read, exit_code, output_exists>>
          \/ /\ encoder_read' = [encoder_read EXCEPT ![op] = fs[f]]
             /\ \E code \in {0, 1}, exists \in BOOLEAN :
                  /\ (code = 0 => fs[f] \in {"list1", "list2"})
                  /\ exit_code' = [exit_code EXCEPT ![op] = code]
                  /\ output_exists' = [output_exists EXCEPT ![op] = exists]
                  /\ merr' = [merr EXCEPT ![op] = encoder_error(code, exists)]
    /\ mpc' = [mpc EXCEPT ![op] = "cleanup"]
    /\ UNCHANGED <<coreVars, postVars, tplVars, edVars, merger, fs, mresult>>

\* video_merger.py:286-291 / scene_manager.py:754-757  the finally clause:
\* the file at the list path is removed if there is one
CleanupConcatList(op) ==
    /\ mpc[op] = "cleanup"
    /\ fs' = [fs EXCEPT ![concat_file(merger[op], op)] = "absent"]
    /\ mpc' = [mpc EXCEPT ![op] = "left"]
    /\ UNCHANGED <<coreVars, postVars, tplVars, edVars, merger, encoder_read, exit_code,
                   output_exists, merr, mresult>>

\* video_merger.py:196-203 / scene_manager.py:693-698  _merge_simple has
\* returned or raised.  An exception is wrapped into VideoMergeError with its
\* text; after a return, logger.success is called, and as the logger has no
\* such method the AttributeError is wrapped the same way.
merge_outcome(err) ==
    IF err # None THEN [status |-> "raised", error |-> err]
    ELSE IF ~logger_has_success
           THEN [status |-> "raised", error |-> "no attribute 'success'"]
           ELSE [status |-> "returned", error |-> None]

MergeFinish(op) ==
    /\ mpc[op] = "left"
    /\ mresult' = [mresult EXCEPT ![op] = merge_outcome(merr[op])]
    /\ mpc' = [mpc EXCEPT ![op] = "done"]
    /\ UNCHANGED <<coreVars, postVars, tplVars, edVars, merger, fs, encoder_read, exit_code,
                   output_exists, merr>>

\* Two merge operations, each run by its own worker (a thread with its own
\* event loop, or a second instance of the application working in the same
\* outputs directory); each is a VideoMerger or a SceneManager merge.
MergeInit ==
    /\ entry = "merge"
    /\ SceneGenerators
    /\ SceneIdle
    /\ tpc = "idle"
    /\ original_prompt = <<>>
    /\ template_text = <<>>
    /\ template_result = <<>>
    /\ prompt_text = <<>>
    /\ sent_prompt = <<>>
    /\ sent_prompts = <<>>
    /\ project_scenes = <<>>
    /\ current_scene_index = -1
    /\ use_previous_frame_check = FALSE
    /\ extend_from_previous_check = FALSE
    /\ chain_checks_enabled = TRUE
    /\ merge_videos_requested = <<>>
    /\ merger \in [Ops -> {"VideoMerger", "SceneManager"}]
    /\ mpc = [op \in Ops |-> "start"]
    /\ fs = [f \in FileNames |-> "absent"]
    /\ encoder_read = [op \in Ops |-> "unread"]
    /\ exit_code = [op \in Ops |-> -1]
    /\ output_exists = [op \in Ops |-> FALSE]
    /\ merr = [op \in Ops |-> None]
    /\ mresult = [op \in Ops |-> NoMergeResult]
    /\ PostIdle

MergeNext ==
    \E op \in Ops :
       \/ WriteConcatList(op)
       \/ RunEncoder(op)
       \/ CleanupConcatList(op)
       \/ MergeFinish(op)

MergeSpec == MergeInit /\ [][MergeNext]_vars

\* ------------------------------------------------ media post-processing
\* VideoMerger (static methods) and SceneManager (methods of an instance)
PostClasses == {"VideoMerger", "SceneManager"}

\* the operations that check for the tool and then run subprocesses
ToolOperations ==
    {"merge_videos", "extract_last_frame", "extract_frame_at_time",
     "get_video_info"}

\* one entry of video_infos, as get_video_info returns it
Info(width, height, rate, codec, duration) ==
    [width |-> width, height |-> height, fps |-> rate, codec |-> codec,
     duration |-> duration]

DefaultInfo == Info(1280, 720, Rate(30, 1), "h264", 1)

\* video_merger.py:48-85  check_ffmpeg_installed runs `ffmpeg -version` and
\* `ffprobe -version` each with timeout=5 and answers False on any
\* SubprocessError; scene_manager.py:79-100 does the same once, in the
\* constructor, and keeps the answer in self.ffmpeg_available
check_ffmpeg_installed(installed) == installed

\* what the operation raises when the tool check fails
tool_absent_error(cls) ==
    IF cls = "VideoMerger" THEN "FFmpegNotFoundError" ELSE "VideoMergeError"

\* whether the operation tests Path(video_path).exists() before working
checks_exists(cls, op) == ~(cls = "SceneManager" /\ op = "get_video_info")

\* the exception raised before any subprocess is started; None when the
\* operation goes on.  n is the number of video paths given, found tells
\* whether every one of them exists.
entry_error(cls, op, installed, n, found) ==
    IF ~check_ffmpeg_installed(installed) THEN tool_absent_error(cls)
    ELSE IF op = "merge_videos" /\ n = 0 THEN "ValueError"
    ELSE IF checks_exists(cls, op) /\ ~found THEN "FileNotFoundError"
    ELSE None

\* a subprocess the operation waits for without a timeout
NoTimeout == 0

\* the timeout, in seconds, of each subprocess the operation runs after
\* the tool check, in the order in which it runs them
timeouts(cls, op, transitions, n) ==
    IF op = "merge_videos"
      THEN IF cls = "SceneManager" THEN <<300>>
           ELSE IF transitions /\ n > 1
                  THEN [i \in 1..n |-> 10] \o <<NoTimeout>>
                  ELSE <<NoTimeout>>
    ELSE IF op = "extract_last_frame" THEN <<10, 30>>
    ELSE IF op = "extract_frame_at_time" THEN <<30>>
    ELSE <<10>>

Raised(error) == [status |-> "raised", error |-> error]
Returned == [status |-> "returned", error |-> None]

\* how the next subprocess will behave
ProcessBehaviours == {"exits", "never exits"}

\* The operation is called: tool check, input checks, and the first
\* subprocess is started.
CallToolOperation ==
    /\ ppc = "call"
    /\ pop \in ToolOperations
    /\ \E found \in BOOLEAN, behaviour \in ProcessBehaviours :
         LET e == entry_error(pclass, pop, ffmpeg_installed, Len(video_infos),
                              found)
         IN IF e # None
              THEN /\ presult' = Raised(e)
                   /\ ppc' = "done"
                   /\ UNCHANGED <<invocation, process>>
              ELSE /\ invocation' = 1
                   /\ process' = behaviour
                   /\ ppc' = "run"
                   /\ UNCHANGED presult
    /\ UNCHANGED <<coreVars, tplVars, edVars, mergeVars, pclass, pop,
                   ffmpeg_installed, add_transitions, video_infos,
                   transition_duration, r_frame_rate, probe_ok, returncode,
                   fps, compatible, filter_complex>>

\* the characters of a frame rate text
Digits == {"0", "1", "3"}
digit_value(c) == IF c = "3" THEN 3 ELSE IF c = "1" THEN 1 ELSE 0

\* float(s) raises ValueError unless s is a number
is_number(s) == s # <<>> /\ \A i \in 1..Len(s) : s[i] \in Digits

RECURSIVE float_of(_)
float_of(s) ==
    IF s = <<>> THEN 0
    ELSE 10 * float_of(SubSeq(s, 1, Len(s) - 1)) + digit_value(s[Len(s)])

slashes(s) == {i \in 1..Len(s) : s[i] = "/"}

ParseError == [raises |-> TRUE, value |-> NoRate]
Parsed(rate) == [raises |-> FALSE, value |-> rate]

\* video_merger.py:662-668 / scene_manager.py:865-871  "Parse frame rate":
\* stream.get('r_frame_rate', '30/1'), split at '/', divide
parse_frame_rate(cls, stream_value) ==
    LET fps_str == IF stream_value = Missing
                     THEN <<"3", "0", "/", "1">> ELSE stream_value
        at == slashes(fps_str)
    IN IF at # {}
         THEN IF Cardinality(at) # 1 THEN ParseError
              ELSE LET i == CHOOSE j \in at : TRUE
                       num == SubSeq(fps_str, 1, i - 1)
                       den == SubSeq(fps_str, i + 1, Len(fps_str))
                   IN IF cls = "VideoMerger"
                        THEN IF ~is_number(den) THEN ParseError
                             ELSE IF float_of(den) = 0 THEN Parsed(Rate(30, 1))
                             ELSE IF ~is_number(num) THEN ParseError
                             ELSE Parsed(Rate(float_of(num), float_of(den)))
                        ELSE IF ~is_number(num) \/ ~is_number(den)
                               THEN ParseError
                             ELSE IF float_of(den) = 0 THEN ParseError
                             ELSE Parsed(Rate(float_of(num), float_of(den)))
         ELSE IF is_number(fps_str) THEN Parsed(Rate(float_of(fps_str), 1))
              ELSE ParseError

\* how the operation ends after its last subprocess exited with 0: whether
\* the output file exists is tested, then merge_videos and the frame
\* extractions call logger.success and get_video_info parses the output.
\* Every exception is wrapped into VideoMergeError.
finish_outcome(cls, op, created, stream_value) ==
    IF op = "get_video_info"
      THEN IF parse_frame_rate(cls, stream_value).raises
             THEN Raised("VideoMergeError") ELSE Returned
    ELSE IF ~created THEN Raised("VideoMergeError")
    ELSE IF ~logger_has_success THEN Raised("VideoMergeError")
    ELSE Returned

\* The subprocess in progress exits.  A non-zero exit code is raised as
\* VideoMergeError; after exit code 0 the next subprocess is started or the
\* operation finishes.
SubprocessExits ==
    /\ ppc = "run"
    /\ process = "exits"
    /\ \E code \in {0, 1}, created \in BOOLEAN,
          behaviour \in ProcessBehaviours :
         /\ returncode' = code
         /\ IF code # 0
              THEN /\ presult' = Raised("VideoMergeError")
                   /\ ppc' = "done"
                   /\ UNCHANGED <<invocation, process, fps>>
              ELSE IF invocation < Len(timeouts(pclass, pop, add_transitions,
                                                Len(video_infos)))
                THEN /\ invocation' = invocation + 1
                     /\ process' = behaviour
                     /\ UNCHANGED <<ppc, presult, fps>>
                ELSE /\ presult' = finish_outcome(pclass, pop, created,
                                                  r_frame_rate)
                     /\ fps' = IF pop = "get_video_info"
                                 THEN parse_frame_rate(pclass, r_frame_rate).value
                                 ELSE fps
                     /\ ppc' = "done"
                     /\ UNCHANGED <<invocation, process>>
    /\ UNCHANGED <<coreVars, tplVars, edVars, mergeVars, pclass, pop,
                   ffmpeg_installed, add_transitions, video_infos,
                   transition_duration, r_frame_rate, probe_ok, compatible,
                   filter_complex>>

\* subprocess.run(..., timeout=t) kills a process that has not exited after
\* t seconds and raises TimeoutExpired, which the operation turns into
\* VideoMergeError; `await process.communicate()` has no such limit.
SubprocessTimesOut ==
    /\ ppc = "run"
    /\ process = "never exits"
    /\ timeouts(pclass, pop, add_transitions, Len(video_infos))[invocation]
         # NoTimeout
    /\ presult' = Raised("VideoMergeError")
    /\ ppc' = "done"
    /\ UNCHANGED <<coreVars, tplVars, edVars, mergeVars, pclass, pop,
                   ffmpeg_installed, add_transitions, video_infos,
                   transition_duration, r_frame_rate, probe_ok, invocation,
                   process, returncode, fps, compatible, filter_complex>>

\* abs(a - b) < 0.1 for the frame rates a and b
within_tenth(a, b) ==
    LET d == a.num * b.den - b.num * a.den
        abs_d == IF d < 0 THEN -d ELSE d
    IN 10 * abs_d < a.den * b.den

\* video_merger.py:713-753 / scene_manager.py:900-923.  get_video_info
\* raises for a missing tool or a failing probe; the except clause answers
\* False.
validate(infos, installed, probed) ==
    IF Len(infos) < 2 THEN TRUE
    ELSE IF ~check_ffmpeg_installed(installed) \/ ~probed THEN FALSE
    ELSE IF ~\A i \in 1..Len(infos) :
               <<infos[i].width, infos[i].height>>
                  = <<infos[1].width, infos[1].height>>
           THEN FALSE
    ELSE IF ~\A i \in 1..Len(infos) : within_tenth(infos[i].fps, infos[1].fps)
           THEN FALSE
    ELSE TRUE

validate_videos_compatible ==
    /\ ppc = "call"
    /\ pop = "validate_videos_compatible"
    /\ compatible' = validate(video_infos, ffmpeg_installed, probe_ok)
    /\ presult' = Returned
    /\ ppc' = "done"
    /\ UNCHANGED <<coreVars, tplVars, edVars, mergeVars, pclass, pop,
                   ffmpeg_installed, add_transitions, video_infos,
                   transition_duration, r_frame_rate, probe_ok, invocation,
                   process, returncode, fps, filter_complex>>

\* the pads of a filter graph: [i:v], [v{i}] and [v]
InputPad(i) == [kind |-> "input", index |-> i]
StagePad(i) == [kind |-> "stage", index |-> i]
OutPad == [kind |-> "out", index |-> 0]

Xfade(left, right, duration, offset, out) ==
    [filter |-> "xfade", left |-> left, right |-> right,
     duration |-> duration, offset |-> offset, out |-> out]
Copy(left, out) ==
    [filter |-> "copy", left |-> left, right |-> left, duration |-> 0,
     offset |-> 0, out |-> out]

\* an offset that does not carry current_offset over from one iteration to
\* the next
next_offset_of_clip(infos, T, i) == infos[i + 1].duration - T

\* video_merger.py:435-436  next_offset in iteration i of the loop, with
\* current_offset carried over from iteration i - 1
RECURSIVE next_offset(_, _, _)
next_offset(infos, T, i) ==
    (IF i = 0 THEN 0 ELSE next_offset(infos, T, i - 1))
       + infos[i + 1].duration - T

\* video_merger.py:413-458  the filter graph, one entry per ';'-separated part
xfade_filter(infos, T) ==
    IF Len(infos) = 1 THEN <<Copy(InputPad(0), OutPad)>>
    ELSE [k \in 1..(Len(infos) - 1) |->
             LET i == k - 1
             IN Xfade(IF i = 0 THEN InputPad(0) ELSE StagePad(i - 1),
                      InputPad(i + 1), T, next_offset(infos, T, i),
                      StagePad(i))]
         \o <<Copy(StagePad(Len(infos) - 2), OutPad)>>

build_xfade_filter ==
    /\ ppc = "call"
    /\ pop = "_build_xfade_filter"
    /\ filter_complex' = xfade_filter(video_infos, transition_duration)
    /\ presult' = Returned
    /\ ppc' = "done"
    /\ UNCHANGED <<coreVars, tplVars, edVars, mergeVars, pclass, pop,
                   ffmpeg_installed, add_transitions, video_infos,
                   transition_duration, r_frame_rate, probe_ok, invocation,
                   process, returncode, fps, compatible>>

\* the inputs of the post-processing operations
Resolutions == {<<1280, 720>>, <<1920, 1080>>}
FrameRates == {Rate(2992, 100), Rate(30, 1), Rate(3008, 100)}
Codecs == {"h264", "hevc"}

\* clips that differ from a 1280x720 h264 clip at 30 fps in one property
Clips ==
    {Info(r[1], r[2], Rate(30, 1), "h264", 1) : r \in Resolutions}
       \cup {Info(1280, 720, rate, "h264", 1) : rate \in FrameRates}
       \cup {Info(1280, 720, Rate(30, 1), codec, 1) : codec \in Codecs}
TimedClips == {Info(1280, 720, Rate(30, 1), "h264", d) : d \in 1..MaxDuration}

Lists(S, lo, hi) == UNION {[1..n -> S] : n \in lo..hi}

NumberTexts == Lists(Digits, 1, MaxDigits)
FrameRateTexts ==
    {num \o <<"/">> \o den : num \in NumberTexts, den \in NumberTexts}
       \cup NumberTexts \cup {Missing}

PostInput(cls, op, installed, transitions, infos, T, text, probed) ==
    [cls |-> cls, op |-> op, installed |-> installed,
     transitions |-> transitions, infos |-> infos, T |-> T, text |-> text,
     probed |-> probed]

PostInputs ==
    {PostInput(cls, "merge_videos", installed, transitions, infos, T,
               Missing, TRUE) :
        cls \in PostClasses, installed \in BOOLEAN, transitions \in BOOLEAN,
        infos \in Lists({DefaultInfo}, 0, 2), T \in {MaxTransition}}
    \cup
    {PostInput(cls, op, installed, FALSE, <<DefaultInfo>>, 0, Missing, TRUE) :
        cls \in PostClasses, installed \in BOOLEAN,
        op \in {"extract_last_frame", "extract_frame_at_time"}}
    \cup
    {PostInput(cls, "get_video_info", installed, FALSE, <<DefaultInfo>>, 0,
               text, TRUE) :
        cls \in PostClasses, installed \in BOOLEAN, text \in FrameRateTexts}
    \cup
    {PostInput(cls, "validate_videos_compatible", installed, FALSE, infos, 0,
               Missing, probed) :
        cls \in PostClasses, installed \in BOOLEAN,
        infos \in Lists(Clips, 0, MaxClips), probed \in BOOLEAN}
    \cup
    {PostInput("VideoMerger", "_build_xfade_filter", TRUE, TRUE, infos, T,
               Missing, TRUE) :
        infos \in Lists(TimedClips, 1, MaxClips), T \in 0..MaxTransition}

PostInit ==
    /\ entry = "post"
    /\ SceneGenerators
    /\ SceneIdle
    /\ tpc = "idle"
    /\ original_prompt = <<>>
    /\ template_text = <<>>
    /\ template_result = <<>>
    /\ prompt_text = <<>>
    /\ sent_prompt = <<>>
    /\ sent_prompts = <<>>
    /\ project_scenes = <<>>
    /\ current_scene_index = -1
    /\ use_previous_frame_check = FALSE
    /\ extend_from_previous_check = FALSE
    /\ chain_checks_enabled = TRUE
    /\ merge_videos_requested = <<>>
    /\ MergeIdle
    /\ \E in \in PostInputs :
         /\ pclass = in.cls
         /\ pop = in.op
         /\ ffmpeg_installed = in.installed
         /\ add_transitions = in.transitions
         /\ video_infos = in.infos
         /\ transition_duration = in.T
         /\ r_frame_rate = in.text
         /\ probe_ok = in.probed
    /\ ppc = "call"
    /\ invocation = 0
    /\ process = None
    /\ returncode = -1
    /\ fps = NoRate
    /\ compatible = FALSE
    /\ filter_complex = <<>>
    /\ presult = NoPostResult

PostNext ==
    \/ CallToolOperation
    \/ SubprocessExits
    \/ SubprocessTimesOut
    \/ validate_videos_compatible
    \/ build_xfade_filter

PostSpec == PostInit /\ [][PostNext]_vars

\* A subprocess that can exit does exit, and a timeout that was set
\* expires.
FairPostSpec == PostSpec /\ WF_vars(PostNext)

\* The event loop runs a started coroutine until it returns or raises, and
\* every backend call returns or raises: some enabled step is always taken.
FairSpec == Spec /\ WF_vars(Next)

\* ------------------------------------------------------------------ claims

\* retry_on_error has raised: every call of the retried operation failed
RetryRaised == jpc = "classify" /\ exc.cls = "Exception"

NoTerminalStatus == jpc = "done" /\ operation_id # None /\ polls = poll_attempt

\* C3: a job whose polls never return a terminal status stops polling after
\* at most max_poll_attempts polls and ends as an error of kind 'timeout'.
C3_NoTerminalIsTimeout ==
    /\ [](polls <= max_poll_attempts)
    /\ [](NoTerminalStatus =>
            /\ jobResult.status = "error"
            /\ jobResult.error_type = "timeout")
    /\ (jpc = "poll" ~> jpc = "done")

C3_Witness ==
    /\ NoTerminalStatus
    /\ transients > 0
    /\ polls > transients
    /\ jobResult.error_type = "timeout"

\* the error kind the claim assigns to what made the job fail
ClaimedKind(e) ==
    CASE e.cls = "APIQuotaExceededError" -> "quota_exceeded"
      [] e.cls = "GenerationTimeoutError" -> "timeout"
      [] e.cls = "GenerationFailedError" -> "generation_failed"
      [] e.msg = "Failed to send request" -> "generation_failed"
      [] e.msg \in DownloadFailures -> "download_failed"
      [] OTHER -> "unknown"

\* C9: a failed generate_video reports quota_exceeded for a quota failure at
\* submission, generation_failed for any other submission failure and for a
\* failure the backend reports, timeout when no terminal status came in
\* time, and a kind of its own, different from 'unknown', for a failed
\* download.
C9_ErrorKinds ==
    (jpc = "done" /\ jobResult.status = "error")
       => jobResult.error_type = ClaimedKind(exc)

\* C10 as claimed: when raising polls occurred and the loop ran out of
\* attempts, the polls of the last max_poll_attempts attempts all raised
\* (only consecutive raising polls count toward the bound).
C10_OnlyConsecutiveErrorsCount ==
    (jpc = "poll" /\ ~loop_continues(poll_attempt, max_poll_attempts)
        /\ transients > 0)
       => consec >= max_poll_attempts

\* C10 amended: a raising poll is counted as one attempt like a poll that
\* returns 'processing', and is followed by a sleep of one poll interval:
\* inside the loop the attempt counter equals the number of polls issued,
\* whether they raised or returned, and at least one poll interval passed per
\* attempt; the loop runs out exactly when that total reaches
\* max_poll_attempts; a raising poll alone never produces an error (the loop
\* leaves with an exception only on a timeout or a 'failed' status), and a
\* job with raising polls can still end in success.
C10_EveryPollCounts ==
    /\ jpc = "poll" =>
          /\ poll_attempt = polls
          /\ elapsed >= polls * poll_interval
          /\ consec <= transients /\ transients <= polls
    /\ (jpc = "poll" /\ ~loop_continues(poll_attempt, max_poll_attempts))
          => polls = max_poll_attempts
    /\ (jpc = "handler" /\ polls > 0 /\ polls = poll_attempt)
          => exc.cls = "GenerationTimeoutError"

C10_Witness ==
    /\ jpc = "done"
    /\ transients > 0
    /\ consec = 0
    /\ jobResult.status = "success"

\* generate_single_scene is past its dispatch decision for scene_data
Dispatched == spc \in {"text_job", "image_job", "scene_returned"}

\* C4: when generate_scene_sequence dispatches a scene, the chaining source
\* it offers is the video of the latest earlier scene that succeeded, that
\* is, whose job ran to completion; none when there is no such scene.
C4_ChainsFromLastSuccess ==
    (entry = "sequence" /\ spc = "resolve")
       => previous_video_path = last_completed_video

\* C5: in generate_scene_sequence a failure while a scene is processed (the
\* generator returns an error result or raises, the template application
\* raises, the dispatch decision raises) becomes that scene's recorded
\* error outcome, and the loop goes on: between scenes there is one outcome
\* per scene processed, and at the return one per scene of the list.
C5_FailureRecordedLoopContinues ==
    /\ (spc = "scene_returned" /\ dispatch.kind = "raised")
          => sceneResult.status = "error" /\ sceneResult.error # None
    /\ (spc = "scene_returned" /\ jobResult.status \in {"error", "raised"})
          => sceneResult.status = "error" /\ sceneResult.error = jobResult.error
    /\ (entry = "sequence" /\ spc = "loop") =>
          /\ Len(results) = cur
          /\ (cur > 0 /\ template_raises(scenes[cur], global_template))
                => /\ results[cur].status = "error"
                   /\ results[cur].error = "template application failed"
          /\ (cur > 0 /\ ~template_raises(scenes[cur], global_template))
                => results[cur] = sceneResult
    /\ (entry = "sequence" /\ spc = "seq_returned") => Len(results) = Len(scenes)

C5_Witness ==
    /\ entry = "sequence"
    /\ spc = "seq_returned"
    /\ Len(scenes) = 2
    /\ results[1].status = "error"
    /\ results[1].error_type = "timeout"
    /\ results[2].status = "error"
    /\ results[2].error = "template application failed"

\* C6: generate_scene_sequence keeps one outcome per scene in scene order:
\* the k-th entry of results belongs to the k-th scene, a scene is
\* dispatched only when exactly the scenes before it have their outcomes
\* recorded, the job in flight belongs to that scene, and the returned
\* list has one entry per scene.
C6_OneOutcomePerSceneInOrder ==
    entry = "sequence" =>
       /\ Len(results) <= Len(scenes)
       /\ \A k \in 1..Len(results) : results[k].scene_index = k - 1
       /\ (spc = "resolve" \/ Dispatched) => (cur < Len(scenes) /\ Len(results) = cur)
       /\ jpc # "idle" => spc = "text_job"
       /\ spc = "seq_returned" => Len(results) = Len(scenes)

C6_Witness ==
    /\ entry = "sequence"
    /\ spc = "seq_returned"
    /\ Len(results) = 2
    /\ results[1].scene_index = 0
    /\ results[1].error_type = "generation_failed"
    /\ results[2].scene_index = 1
    /\ results[2].error_type = "quota_exceeded"

\* C7: when the job of a scene ran to completion, generate_single_scene
\* returns status success with the downloaded video, and
\* generate_scene_sequence records that outcome and makes the video the
\* chain anchor.
C7_CompletedJobIsSuccess ==
    /\ (spc = "scene_returned" /\ jobResult.status = "success")
          => /\ sceneResult.status = "success"
             /\ sceneResult.video_path = jobResult.video_path
    /\ (entry = "sequence" /\ spc = "loop" /\ cur > 0
           /\ last_completed_video = VideoName(cur - 1))
          => /\ results[cur].status = "success"
             /\ results[cur].video_path = VideoName(cur - 1)
             /\ previous_video_path = VideoName(cur - 1)

\* C11: once cancel_generation was called, no further status poll is issued,
\* a job that was not yet terminal ends with status 'cancelled', and
\* generate_scene_sequence starts no further scene.
C11_CancelStopsRun ==
    [][cancel_requested =>
          /\ polls' <= polls
          /\ (jpc # "done" /\ jpc' = "done") => jobResult'.status = "cancelled"
          /\ ~(spc = "loop" /\ spc' = "resolve")]_vars

\* s holds nothing but whitespace
Blank(s) == \A i \in 1..Len(s) : s[i] = " "

\* s without the whitespace before its first and after its last other
\* character
Core(s) ==
    LET inked == { i \in 1..Len(s) : s[i] # " " }
    IN SubSeq(s, CHOOSE i \in inked : \A j \in inked : i <= j,
                 CHOOSE i \in inked : \A j \in inked : i >= j)

\* C12 as claimed: the prompt itself, a period if it does not end with one,
\* one space, the template
PeriodThenTemplate(p, t) ==
    IF Blank(t) THEN p
    ELSE p \o (IF p # <<>> /\ p[Len(p)] = "." THEN <<>> ELSE <<".">>)
           \o <<" ">> \o t

C12_PeriodThenTemplate ==
    /\ tpc = "returned" => template_result = PeriodThenTemplate(original_prompt, template_text)
    /\ tpc = "sent" => sent_prompt = PeriodThenTemplate(original_prompt, template_text)

\* the effective prompt the code builds
EffectivePrompt(p, t) ==
    IF Blank(t) THEN p
    ELSE IF Blank(p) THEN <<>>
    ELSE Core(p)
           \o (IF Core(p)[Len(Core(p))] \in {".", "!", "?"} THEN <<>> ELSE <<".">>)
           \o <<" ">> \o Core(t)

\* C12 amended: with an empty or whitespace-only template the prompt is
\* returned unchanged; otherwise prompt and template are stripped of
\* surrounding whitespace, a prompt that is then empty is returned empty
\* without the template, and any other prompt gets a period unless it
\* already ends with '.', '!' or '?', then one space and the stripped
\* template.  generate_scene_sequence stores this text as the scene's
\* prompt and hands exactly it to the generator.
C12_TemplateApplied ==
    /\ tpc = "returned" => template_result = EffectivePrompt(original_prompt, template_text)
    /\ tpc \in {"dispatch", "sent"}
          => prompt_text = EffectivePrompt(original_prompt, template_text)
    /\ tpc = "sent" => sent_prompt = prompt_text

C12_Witness ==
    /\ tpc = "sent"
    /\ original_prompt = <<" ", "a", "!">>
    /\ template_text = <<"t", " ">>
    /\ sent_prompt = <<"a", "!", " ", "t">>

\* C13: whatever scenes were added, deleted, moved and edited, the first
\* scene of the project has neither chaining flag set.
C13_FirstSceneNeverChained ==
    Len(project_scenes) > 0 =>
       /\ ~project_scenes[1].use_previous_frame
       /\ ~project_scenes[1].extend_from_previous

\* the status sequences a job may have handed to the store so far
StatusPaths ==
    {<<>>, <<"pending">>, <<"pending", "processing">>,
     <<"pending", "processing", "completed">>,
     <<"pending", "failed">>, <<"pending", "processing", "failed">>}

StatusWritten(st) == \E k \in 1..Len(statuses) : statuses[k] = st

\* C14: the statuses of one generate_video job are written in the order
\* pending, processing, then completed or failed, nothing after those two;
\* processing only once submission returned an operation id, completed only
\* when the download succeeded and the job returns success, failed only
\* when the job returns.
C14_StatusMonotonic ==
    /\ statuses \in StatusPaths
    /\ StatusWritten("processing") => operation_id # None
    /\ StatusWritten("completed") => jpc = "done" /\ jobResult.status = "success"
    /\ StatusWritten("failed") => jpc = "done" /\ jobResult.status = "error"

C14_Witness ==
    /\ jpc = "done"
    /\ statuses = <<"pending", "processing", "failed">>
    /\ jobResult.error_type = "unknown"
    /\ exc.msg \in DownloadFailures

\* the statuses a progress event may carry
EventStatuses == {"processing", "completed", "failed", "error", "done"}

\* C15: generate_scene_sequence with a progress sink.  Scene k (from 0) owns
\* events 2k+1 and 2k+2: a 'processing' event with index k, emitted before
\* the scene is dispatched, and one of 'completed', 'failed', 'error' with
\* index k+1, emitted once the scene's outcome is recorded ('completed'
\* exactly for a success); nothing else is emitted for a scene, so scenes'
\* events do not interleave; the single 'done' event is the last one,
\* carries (total, total) and comes with the return.
C15_ProgressEvents ==
    entry = "sequence" =>
       LET n == Len(events)
           body == IF spc = "seq_returned" THEN n - 1 ELSE n
       IN /\ \A k \in 1..n : events[k].status \in EventStatuses
                                /\ events[k].total = Len(scenes)
          /\ \A k \in 1..body :
                IF k % 2 = 1
                  THEN events[k] = Event((k - 1) \div 2, Len(scenes), "processing")
                  ELSE /\ events[k].index = k \div 2
                       /\ events[k].status \in {"completed", "failed", "error"}
                       /\ Len(results) >= k \div 2
                       /\ events[k].status = "completed"
                             <=> results[k \div 2].status = "success"
          /\ body = 2 * cur + (IF spc = "loop" \/ spc = "seq_returned" THEN 0 ELSE 1)
          /\ spc = "seq_returned" =>
                /\ n = 2 * Len(scenes) + 1
                /\ events[n] = Event(Len(scenes), Len(scenes), "done")

C15_Witness ==
    /\ entry = "sequence"
    /\ spc = "seq_returned"
    /\ Len(events) = 5
    /\ events[2].status = "failed"
    /\ events[4].status = "error"
    /\ events[5].status = "done"

\* C16: generate_video raises nothing: whatever fails, it returns a result
\* with status 'error' and an error kind; rejected input leads to no record
\* and no request.
C16_NeverRaises ==
    /\ jpc = "done" =>
          /\ jobResult.status \in {"success", "error"}
          /\ jobResult.status = "error" => jobResult.error_type # None
    /\ ~valid => (statuses = <<>> /\ calls = 0 /\ operation_id = None)

\* the outcome of a job as the backend's behaviour alone determines it
BackendOutcome ==
    IF ~valid THEN Result("raised", None, None, "UnboundLocalError")
    ELSE IF exc = NoExc THEN Result("success", job_video, None, None)
    ELSE Result("error", None, error_type_of(exc.cls), error_text_of(exc))

\* C17: what generate_video returns depends on the input and on what the
\* backend did, not on the record store: with no store, a working store or
\* a store that raises, the result is the same function of the failure (or
\* of the absence of one) that ended the job.
C17_StoreNeverChangesOutcome ==
    jpc = "done" => jobResult = BackendOutcome

C17_Witness ==
    /\ jpc = "done"
    /\ db = "fails"
    /\ generation_id = None
    /\ jobResult.status = "error"
    /\ jobResult.error_type = "generation_failed"

\* C18: when _merge_simple returns or raises, the list file of the operation
\* no longer exists.
C18_ConcatListRemoved ==
    [][\A op \in Ops :
          (mpc[op] # "left" /\ mpc'[op] = "left")
             => fs'[concat_file(merger[op], op)] = "absent"]_vars

\* C19: every merge operation has a list file of its own: two operations in
\* progress never use the same path, the list an operation wrote is still
\* there, unchanged, when its encoder starts, and the encoder reads that
\* list and no other.
C19_ConcatListsOperationLocal ==
    /\ \A a, b \in Ops :
          (a # b /\ mpc[a] \in {"written", "cleanup"} /\ mpc[b] \in {"written", "cleanup"})
             => concat_file(merger[a], a) # concat_file(merger[b], b)
    /\ \A op \in Ops :
          /\ mpc[op] = "written" => fs[concat_file(merger[op], op)] = list_of(op)
          /\ encoder_read[op] \in {"unread", list_of(op)}

\* C20: a merge returns its output path exactly when the encoder exited with
\* code 0 and the output file exists; after a non-zero exit it raises an
\* error that carries the encoder's stderr.
C20_SuccessIffExitZero ==
    \A op \in Ops :
       mpc[op] = "done" =>
          /\ mresult[op].status = "returned"
                <=> (exit_code[op] = 0 /\ output_exists[op])
          /\ exit_code[op] > 0 =>
                /\ mresult[op].status = "raised"
                /\ mresult[op].error = "ffmpeg failed: stderr"

\* C21: every post-processing operation (merge, the two frame
\* extractions, probing the metadata, validating compatibility) called while
\* the tool is absent ends by raising FFmpegNotFoundError: it returns no
\* value and raises no other kind of error.
C21_ToolAbsentRaisesEncoderNotFound ==
    (/\ ppc = "done"
     /\ pop \in ToolOperations \cup {"validate_videos_compatible"}
     /\ ~ffmpeg_installed)
       => presult = Raised("FFmpegNotFoundError")

\* C22: every subprocess is waited for with a timeout: an operation (merge,
\* merge with transitions, frame extraction, probe) that has started a
\* subprocess ends, by returning or by raising, even when the subprocess
\* never exits.
C22_OperationsTerminate == (ppc = "run") ~> (ppc = "done")

\* the frame rates a and b differ by more than 0.1 fps
DiffersByMoreThanTenth(a, b) ==
    LET d == a.num * b.den - b.num * a.den
    IN 10 * (IF d < 0 THEN -d ELSE d) > a.den * b.den

\* C23: when every input can be probed, validate_videos_compatible returns
\* False exactly when some pair of clips (any two, not only a clip and the
\* first one) differs in resolution or differs in frame rate by more than
\* 0.1 fps; a codec difference plays no part.
C23_FalseIffSomePairDiffers ==
    (/\ ppc = "done"
     /\ pop = "validate_videos_compatible"
     /\ ffmpeg_installed
     /\ probe_ok)
       => (compatible = FALSE
             <=> \E i, j \in 1..Len(video_infos) :
                    \/ video_infos[i].width # video_infos[j].width
                    \/ video_infos[i].height # video_infos[j].height
                    \/ DiffersByMoreThanTenth(video_infos[i].fps,
                                              video_infos[j].fps))

\* the length of the video obtained by merging clips 0..i: each crossfade
\* makes two clips overlap for T seconds
RECURSIVE MergedLength(_, _, _)
MergedLength(infos, T, i) ==
    IF i = 0 THEN infos[1].duration
    ELSE MergedLength(infos, T, i - 1) + infos[i + 1].duration - T

\* C24: for n >= 2 clips _build_xfade_filter builds n - 1 crossfades chained
\* in input order: crossfade i joins the output of crossfade i - 1 (input 0
\* when i = 0) with input i + 1, lasts T seconds and starts T seconds before
\* the end of everything merged up to and including clip i; the output of
\* the last crossfade is the final output.
C24_XfadeChain ==
    (/\ ppc = "done"
     /\ pop = "_build_xfade_filter"
     /\ Len(video_infos) >= 2)
       => LET n == Len(video_infos)
              f == filter_complex
          IN /\ Len(f) = n
             /\ \A k \in 1..(n - 1) :
                  /\ f[k].filter = "xfade"
                  /\ f[k].left = IF k = 1 THEN InputPad(0) ELSE f[k - 1].out
                  /\ f[k].right = InputPad(k)
                  /\ f[k].duration = transition_duration
                  /\ f[k].offset
                       = MergedLength(video_infos, transition_duration, k - 1)
                           - transition_duration
                  /\ f[k].out.kind = "stage"
                  /\ \A j \in 1..(k - 1) : f[j].out # f[k].out
             /\ f[n] = Copy(f[n - 1].out, OutPad)

\* three clips are chained by two crossfades of one second
C24_Witness ==
    /\ ppc = "done"
    /\ pop = "_build_xfade_filter"
    /\ Len(video_infos) = 3
    /\ transition_duration = 1
    /\ Len(filter_complex) = 3
    /\ filter_complex[2].filter = "xfade"
    /\ filter_complex[2].offset
         = video_infos[1].duration + video_infos[2].duration - 2

\* the frame rate text names num/den
IsFraction(text) == Cardinality(slashes(text)) = 1
SlashAt(text) == CHOOSE i \in slashes(text) : TRUE
Numerator(text) == float_of(SubSeq(text, 1, SlashAt(text) - 1))
Denominator(text) == float_of(SubSeq(text, SlashAt(text) + 1, Len(text)))

\* C25: get_video_info, of VideoMerger and of SceneManager, turns a frame
\* rate text num/den into num divided by den, and yields 30.0 without an
\* error when the denominator is zero or the frame rate is missing.
C25_FrameRateOrDefault ==
    (/\ ppc = "done"
     /\ pop = "get_video_info"
     /\ returncode = 0
     /\ r_frame_rate = Missing \/ IsFraction(r_frame_rate))
       => /\ presult = Returned
          /\ IF r_frame_rate = Missing \/ Denominator(r_frame_rate) = 0
               THEN fps = Rate(30, 1)
               ELSE fps.num * Denominator(r_frame_rate)
                      = Numerator(r_frame_rate) * fps.den

\* C26: a merge request is emitted only in a state where the project has
\* at least one scene and every scene is done and has a video path, and it
\* carries these paths in scene order; in every other state reached by
\* adding, deleting, moving scenes and reporting their status, none is
\* emitted.
C26_MergeOnlyWhenAllCompleted ==
    [][merge_videos_requested' # merge_videos_requested
         => /\ Len(project_scenes) >= 1
            /\ \A i \in 1..Len(project_scenes) :
                 /\ project_scenes[i].status = "done"
                 /\ project_scenes[i].video_path # None
            /\ merge_videos_requested'
                 = Append(merge_videos_requested,
                          [i \in 1..Len(project_scenes) |->
                              project_scenes[i].video_path])]_vars

\* a merge of a project of two scenes was requested
C26_Witness ==
    /\ Len(merge_videos_requested) = 1
    /\ Len(merge_videos_requested[1]) = 2
    /\ Len(project_scenes) = 2

\* C30: whatever scenes were added, deleted and moved, the scene at list
\* index k has scene_id k + 1: the ids are 1..n in list order, hence
\* pairwise distinct.
C30_SceneIdsFollowListOrder ==
    \A k \in 1..Len(project_scenes) : project_scenes[k].scene_id = k

\* C27: generate_scene_sequence leaves the stored prompt of a scene as the
\* caller gave it, so that every call on the same scene list with the same
\* global template hands the same prompt to the generator.
C27_SequenceLeavesPromptsUnchanged ==
    /\ tpc \in {"dispatch", "sent"} => prompt_text = original_prompt
    /\ \A i, j \in 1..Len(sent_prompts) : sent_prompts[i] = sent_prompts[j]

\* C28: an exception raised by the progress sink does not leave
\* generate_scene_sequence and does not spoil its result: the call returns,
\* and the results hold exactly one outcome per scene, in scene order.
C28_SinkErrorsContained ==
    entry = "sequence" =>
       /\ spc # "seq_raised"
       /\ Len(results) <= Len(scenes)
       /\ \A k \in 1..Len(results) : results[k].scene_index = k - 1
       /\ spc = "seq_returned" => Len(results) = Len(scenes)

\* C29: while the job of a scene runs inside generate_scene_sequence, the
\* progress updates the job has made so far were delivered to the sink as
\* 'processing' events with the scene's index and the total, after the
\* scene's initial 'processing' event.  A job that has sent its request has
\* made two updates (0% and 10%).
C29_JobProgressReachesSink ==
    (/\ entry = "sequence"
     /\ spc = "text_job"
     /\ jpc \in {"submit", "submitted", "classify", "poll", "download"})
       => /\ Len(events) >= 3
          /\ \A k \in (Len(events) - 2)..Len(events) :
                events[k] = Event(cur, Len(scenes), "processing")

====
